---- MODULE Spec2Model ----
(***************************************************************************)
(* Model of the dialogue orchestrator and quiz engine of the AI developer  *)
(* tutor backend: the mode router (determineNode), the four mode           *)
(* executors, executeGraph with its quiz follow-up interception and        *)
(* best-effort persistence, the chat transports that call it, quiz         *)
(* generation and answer submission.                                       *)
(*                                                                         *)
(* Strings are sequences of tokens.  Text typed by a user is a sequence of *)
(* one-character tokens, so that toLowerCase, includes, trim and the       *)
(* regular expressions act character by character; the fixed text of a     *)
(* template literal is one token per literal chunk.  An optional value     *)
(* (a key that may be missing from an object, undefined, null) is a        *)
(* sequence of length 0 or 1.                                              *)
(***************************************************************************)
EXTENDS Integers, Sequences, FiniteSets, TLC

VARIABLES chat_sessions, quiz_sessions, users, inflight, last, turns, clients

vars == <<chat_sessions, quiz_sessions, users, inflight, last, turns, clients>>

\* ------------------------------------------------------------------------
\* Bounds of the model
\* ------------------------------------------------------------------------
MaxFrags == 2

MaxTurns == 2

\* ------------------------------------------------------------------------
\* Optional values and strings
\* ------------------------------------------------------------------------
None == <<>>

Some(x) == <<x>>

IsSome(o) == Len(o) = 1

Get(o) == o[1]

\* a || b for an optional a
OrElse(o, d) == IF IsSome(o) THEN o[1] ELSE d

UpperChars == <<"A","B","C","D","E","F","G","H","I","J","K","L","M",
                "N","O","P","Q","R","S","T","U","V","W","X","Y","Z">>

LowerChars == <<"a","b","c","d","e","f","g","h","i","j","k","l","m",
                "n","o","p","q","r","s","t","u","v","w","x","y","z">>

\* the position in the alphabet of each letter, in either case
LetterIndex ==
  [c \in {UpperChars[i] : i \in 1..Len(UpperChars)} \cup {LowerChars[i] : i \in 1..Len(LowerChars)} |->
     CHOOSE i \in 1..Len(UpperChars) : UpperChars[i] = c \/ LowerChars[i] = c]

IsLetter(c) == c \in DOMAIN LetterIndex

LowerChar(c) == IF IsLetter(c) THEN LowerChars[LetterIndex[c]] ELSE c

UpperChar(c) == IF IsLetter(c) THEN UpperChars[LetterIndex[c]] ELSE c

\* String.prototype.toLowerCase
toLowerCase(s) == [i \in 1..Len(s) |-> LowerChar(s[i])]

\* String.prototype.toUpperCase
toUpperCase(s) == [i \in 1..Len(s) |-> UpperChar(s[i])]

\* String.prototype.includes
includes(s, sub) ==
  \E i \in 0..(Len(s) - Len(sub)) : SubSeq(s, i + 1, i + Len(sub)) = sub

IsSpace(c) == c = " "

\* String.prototype.trim
RECURSIVE trimStart(_)
trimStart(s) ==
  IF s # <<>> /\ IsSpace(Head(s)) THEN trimStart(Tail(s)) ELSE s

RECURSIVE trimEnd(_)
trimEnd(s) ==
  IF s # <<>> /\ IsSpace(s[Len(s)]) THEN trimEnd(SubSeq(s, 1, Len(s) - 1)) ELSE s

trim(s) == trimEnd(trimStart(s))

\* Array.prototype.join(', ')
RECURSIVE join(_)
join(xs) ==
  IF xs = <<>> THEN <<>>
  ELSE IF Len(xs) = 1 THEN xs[1]
  ELSE xs[1] \o <<", ">> \o join(Tail(xs))

\* ------------------------------------------------------------------------
\* Mode router
\* ------------------------------------------------------------------------
ModeTags == <<"code-feedback", "concept-explainer", "quiz-generator", "mistake-analyzer">>

kw_code == <<"c","o","d","e">>
kw_debug == <<"d","e","b","u","g">>
kw_review == <<"r","e","v","i","e","w">>
kw_feedback == <<"f","e","e","d","b","a","c","k">>
kw_quiz == <<"q","u","i","z">>
kw_test == <<"t","e","s","t">>
kw_question == <<"q","u","e","s","t","i","o","n">>
kw_practice == <<"p","r","a","c","t","i","c","e">>
kw_progress == <<"p","r","o","g","r","e","s","s">>
kw_mistake == <<"m","i","s","t","a","k","e">>
kw_track == <<"t","r","a","c","k">>
kw_analysis == <<"a","n","a","l","y","s","i","s">>

\* a mutant of the router: the quiz group is tested before the code group
determineNode_QuizFirst(userInput) ==
  LET input == toLowerCase(userInput) IN
  IF includes(input, kw_quiz) \/ includes(input, kw_test)
     \/ includes(input, kw_question) \/ includes(input, kw_practice)
  THEN "quiz-generator"
  ELSE IF includes(input, kw_code) \/ includes(input, kw_debug)
     \/ includes(input, kw_review) \/ includes(input, kw_feedback)
  THEN "code-feedback"
  ELSE IF includes(input, kw_progress) \/ includes(input, kw_mistake)
     \/ includes(input, kw_track) \/ includes(input, kw_analysis)
  THEN "mistake-analyzer"
  ELSE "concept-explainer"

determineNode(userInput) ==
  LET input == toLowerCase(userInput) IN
  IF includes(input, kw_code) \/ includes(input, kw_debug)
     \/ includes(input, kw_review) \/ includes(input, kw_feedback)
  THEN "code-feedback"
  ELSE IF includes(input, kw_quiz) \/ includes(input, kw_test)
     \/ includes(input, kw_question) \/ includes(input, kw_practice)
  THEN "quiz-generator"
  ELSE IF includes(input, kw_progress) \/ includes(input, kw_mistake)
     \/ includes(input, kw_track) \/ includes(input, kw_analysis)
  THEN "mistake-analyzer"
  ELSE "concept-explainer"

\* ------------------------------------------------------------------------
\* User preferences
\* ------------------------------------------------------------------------
s_beginner == <<"b","e","g","i","n","n","e","r">>
s_intermediate == <<"i","n","t","e","r","m","e","d","i","a","t","e">>
s_advanced == <<"a","d","v","a","n","c","e","d">>

\* the preferences a user gets at registration
RegisteredPreferences ==
  [difficulty |-> Some(s_beginner),
   preferred_languages |-> Some(<< <<"javascript">> >>),
   learning_style |-> Some(<<"text">>)]

\* the preferences executeGraph uses when db.getUserById throws
FallbackPreferences ==
  [difficulty |-> Some(s_beginner),
   preferred_languages |-> Some(<< <<"javascript">>, <<"react">>, <<"typescript">> >>),
   learning_style |-> Some(<<"hands-on">>)]

\* an optional string that is present and not ''
Truthy(o) == IsSome(o) /\ o[1] # <<>>

\* state.context.user_preferences?.f
PrefField(prefs, f) == IF IsSome(prefs) THEN prefs[1][f] ELSE None

\* user_preferences?.difficulty || 'beginner'
PrefDifficulty(prefs) ==
  LET d == PrefField(prefs, "difficulty") IN
  IF Truthy(d) THEN d[1] ELSE s_beginner

\* user_preferences?.preferred_languages?.join(', ') || 'JavaScript'
PrefLanguages(prefs) ==
  LET l == PrefField(prefs, "preferred_languages") IN
  IF IsSome(l) /\ join(l[1]) # <<>> THEN join(l[1]) ELSE <<"JavaScript">>

\* user_preferences?.learning_style || 'hands-on'
PrefLearningStyle(prefs) ==
  LET l == PrefField(prefs, "learning_style") IN
  IF Truthy(l) THEN l[1] ELSE <<"hands-on">>

\* ------------------------------------------------------------------------
\* Mode executors.  completion is the outcome of
\* openai.chat.completions.create: it throws, or it yields
\* response.choices[0]?.message?.content (missing, '' or a text).
\* An executor returns [exception, value].
\* ------------------------------------------------------------------------
Return(v) == [exception |-> FALSE, value |-> v]

Throw == [exception |-> TRUE, value |-> <<>>]

CodeFeedbackPrefix == "[Code Feedback Mode]"

ConceptExplainerPrefix == "[Concept Explainer Mode]"

QuizPrefix == "[Quiz Mode]"

ProgressAnalyzerPrefix == "[Progress Analyzer Mode]"

kw_explain == <<"e","x","p","l","a","i","n">>
kw_what == <<"w","h","a","t">>
kw_how == <<"h","o","w">>
kw_error == <<"e","r","r","o","r">>
kw_wrong == <<"w","r","o","n","g">>

executeCodeFeedbackNode(state, completion) ==
  LET difficulty == PrefDifficulty(state.context.user_preferences)
      languages == PrefLanguages(state.context.user_preferences)
      userInput == Get(state.context.user_input)
  IN
  IF ~completion.throws
  THEN Return(IF Truthy(completion.content) THEN completion.content[1]
              ELSE <<CodeFeedbackPrefix, " I'm ready to help you with code analysis!">>)
  ELSE Return(<<CodeFeedbackPrefix, " Hello! I'm your AI code reviewer, ready to help you improve your ">>
              \o languages \o <<" code. As a ">> \o difficulty \o <<" level developer, I can analyze your code. ">>
              \o (IF includes(toLowerCase(userInput), kw_code) \/ includes(toLowerCase(userInput), kw_review)
                  THEN <<"Please paste your code here">>
                  ELSE <<"Feel free to ask specific coding questions">>))

executeConceptExplainerNode(state, completion) ==
  LET difficulty == PrefDifficulty(state.context.user_preferences)
      learningStyle == PrefLearningStyle(state.context.user_preferences)
      languages == PrefLanguages(state.context.user_preferences)
      userInput == Get(state.context.user_input)
  IN
  IF ~completion.throws
  THEN Return(IF Truthy(completion.content) THEN completion.content[1]
              ELSE <<ConceptExplainerPrefix, " I'm ready to explain any programming concept!">>)
  ELSE Return(<<ConceptExplainerPrefix, " Hello! I'm your AI programming tutor, specialized in explaining ">>
              \o languages \o <<" concepts! Tailored for your ">> \o difficulty \o <<" level using ">>
              \o learningStyle \o <<" learning approaches. ">>
              \o (IF includes(toLowerCase(userInput), kw_explain) \/ includes(toLowerCase(userInput), kw_what)
                     \/ includes(toLowerCase(userInput), kw_how)
                  THEN <<"Great question about ">> \o userInput
                  ELSE <<"What programming concept would you like me to explain today?">>))

\* a mutant of the quiz executor: the completion failure is not caught
executeQuizGeneratorNode_NoCatch(state, completion) ==
  IF ~completion.throws
  THEN Return(IF Truthy(completion.content) THEN completion.content[1]
              ELSE <<QuizPrefix, " I'm ready to create personalized programming quizzes for you!">>)
  ELSE Throw

executeQuizGeneratorNode(state, completion) ==
  LET difficulty == PrefDifficulty(state.context.user_preferences)
      languages == PrefLanguages(state.context.user_preferences)
      userInput == Get(state.context.user_input)
  IN
  IF ~completion.throws
  THEN Return(IF Truthy(completion.content) THEN completion.content[1]
              ELSE <<QuizPrefix, " I'm ready to create personalized programming quizzes for you!">>)
  ELSE Return(<<QuizPrefix, " Ready to test your ">> \o languages \o <<" programming knowledge? ">>
              \o toUpperCase(difficulty) \o <<" Level Quiz Available. ">>
              \o (IF includes(toLowerCase(userInput), kw_quiz) \/ includes(toLowerCase(userInput), kw_test)
                     \/ includes(toLowerCase(userInput), kw_question)
                  THEN <<"Quick ">> \o languages \o <<" Challenge">>
                  ELSE <<"What specific topic would you like me to quiz you on?">>))

executeMistakeAnalyzerNode(state, completion) ==
  LET difficulty == PrefDifficulty(state.context.user_preferences)
      languages == PrefLanguages(state.context.user_preferences)
      userInput == Get(state.context.user_input)
      sessionsCompleted == IF IsSome(state.context.conversation_history)
                           THEN Len(state.context.conversation_history[1]) ELSE 0
  IN
  IF ~completion.throws
  THEN Return(IF Truthy(completion.content) THEN completion.content[1]
              ELSE <<ProgressAnalyzerPrefix, " I'm ready to analyze your programming progress!">>)
  ELSE Return(<<ProgressAnalyzerPrefix, " Let's analyze your ">> \o languages
              \o <<" programming journey! Current Level: ">> \o difficulty
              \o <<" Sessions Completed: ", ToString(sessionsCompleted), " Learning Style: ">>
              \o PrefLearningStyle(state.context.user_preferences)
              \o (IF includes(toLowerCase(userInput), kw_mistake) \/ includes(toLowerCase(userInput), kw_error)
                     \/ includes(toLowerCase(userInput), kw_wrong)
                  THEN <<" Error Analysis Focus">>
                  ELSE <<" Growth Opportunities">>))

\* ------------------------------------------------------------------------
\* The regular expressions of the quiz follow-up interception
\* ------------------------------------------------------------------------
Digits == <<"0","1","2","3","4","5","6","7","8","9">>

IsDigit(c) == \E i \in 1..Len(Digits) : Digits[i] = c

DigitVal(c) == (CHOOSE i \in 1..Len(Digits) : Digits[i] = c) - 1

\* \w
IsWordChar(c) == IsLetter(c) \/ IsDigit(c) \/ c = "_"

\* the length of the run of digits (\d+, greedy) that starts at position i
RECURSIVE DigitRun(_, _)
DigitRun(s, i) == IF i <= Len(s) /\ IsDigit(s[i]) THEN 1 + DigitRun(s, i + 1) ELSE 0

\* the length of the run of white space (\s*, greedy) that starts at position i
RECURSIVE SpaceRun(_, _)
SpaceRun(s, i) == IF i <= Len(s) /\ IsSpace(s[i]) THEN 1 + SpaceRun(s, i + 1) ELSE 0

\* /word\s*(\d+)/i (spaces = TRUE) or /word(\d+)/i (spaces = FALSE) anchored at
\* position i: the captured digits, or None
MatchAt(s, i, word, spaces) ==
  LET j == i + Len(word)
      k == IF spaces THEN j + SpaceRun(s, j) ELSE j
      n == DigitRun(s, k)
  IN IF i + Len(word) - 1 <= Len(s)
        /\ toLowerCase(SubSeq(s, i, i + Len(word) - 1)) = word
        /\ n >= 1
     THEN Some(SubSeq(s, k, k + n - 1))
     ELSE None

\* String.prototype.match with a regular expression without the g flag: the
\* capture of the leftmost match, or None
match(s, word, spaces) ==
  IF \E i \in 1..Len(s) : IsSome(MatchAt(s, i, word, spaces))
  THEN MatchAt(s, CHOOSE i \in 1..Len(s) :
                    /\ IsSome(MatchAt(s, i, word, spaces))
                    /\ \A h \in 1..(i - 1) : ~IsSome(MatchAt(s, h, word, spaces)),
               word, spaces)
  ELSE None

re_question == kw_question

re_q == <<"q">>

re_answer_to == <<"a","n","s","w","e","r"," ","t","o"," ">>

\* /(question\s*\d+|q\d+|answer to \d+)/i.test(userInput)
QuestionReferenceTest(userInput) ==
  \/ IsSome(match(userInput, re_question, TRUE))
  \/ IsSome(match(userInput, re_q, FALSE))
  \/ IsSome(match(userInput, re_answer_to, FALSE))

\* the three match calls that extract the question number, in their order
QuestionReferenceMatch(userInput) ==
  IF IsSome(match(userInput, re_question, TRUE)) THEN match(userInput, re_question, TRUE)
  ELSE IF IsSome(match(userInput, re_q, FALSE)) THEN match(userInput, re_q, FALSE)
  ELSE match(userInput, re_answer_to, FALSE)

\* parseInt(digits, 10)
RECURSIVE parseInt(_)
parseInt(ds) ==
  IF ds = <<>> THEN 0 ELSE 10 * parseInt(SubSeq(ds, 1, Len(ds) - 1)) + DigitVal(ds[Len(ds)])

\* label.charCodeAt(0) - 65 for a letter; any other character (and the NaN of
\* an empty string) is a value that equals no option index
CharIndex(str) ==
  IF str # <<>> /\ IsLetter(str[1])
  THEN LetterIndex[str[1]] - 1
  ELSE -1

\* userInput.match(/\b([A-D])\b/gi), upper-cased and made unique in the order
\* of first occurrence: [...new Set(answerMatch.map(l => l.toUpperCase()))]
RECURSIVE UniqueLabels(_, _, _)
UniqueLabels(s, i, acc) ==
  IF i > Len(s) THEN acc
  ELSE LET c == UpperChar(s[i])
           isLabel == /\ c \in {"A", "B", "C", "D"}
                      /\ (i = 1 \/ ~IsWordChar(s[i - 1]))
                      /\ (i = Len(s) \/ ~IsWordChar(s[i + 1]))
           seen == \E h \in 1..Len(acc) : acc[h] = c
       IN UniqueLabels(s, i + 1, IF isLabel /\ ~seen THEN Append(acc, c) ELSE acc)

\* ------------------------------------------------------------------------
\* executeGraph
\*
\* A context object is a record of optional fields (a missing key is None).
\* The clock is not modelled: timestamps are left out of history entries and
\* metadata.  env holds the outcomes of the collaborators during the call:
\*   userThrows, user   db.getUserById throws / the user it returns (or null)
\*   completion         the outcome of openai.chat.completions.create
\*   update             db.updateChatSession: "ok", "error" (returns null)
\*                      or "throw"
\* ------------------------------------------------------------------------
EmptyContext ==
  [user_preferences |-> None, conversation_history |-> None,
   available_transitions |-> None, user_input |-> None, node_output |-> None,
   quizContext |-> None, requested_node |-> None]

\* { ...base, ...over }: a key of over replaces the key of base
Spread(base, over) ==
  [k \in DOMAIN base |-> IF IsSome(over[k]) THEN over[k] ELSE base[k]]

FallbackResponse ==
  <<"I'm here to help you learn programming! You can ask me to:",
    "Review your code", "Explain concepts", "Create quizzes", "Track progress",
    "What would you like to work on today?">>

NoCalls == [determineNode |-> 0, executor |-> None, completion |-> 0]

\* ${String.fromCharCode(65 + idx)}) ${opt} joined with '\n'
RECURSIVE OptionLines(_, _)
OptionLines(options, idx) ==
  IF idx > Len(options) THEN <<>>
  ELSE <<UpperChars[idx], ") ">> \o options[idx]
       \o (IF idx < Len(options) THEN <<"\n">> ELSE <<>>)
       \o OptionLines(options, idx + 1)

\* the "why not X" clauses for the labels named in the input
RECURSIVE WhyNot(_, _, _)
WhyNot(labels, q, correctIdx) ==
  IF labels = <<>> THEN <<>>
  ELSE LET label == Head(labels)
           idx == CharIndex(<<label>>)
           options == q.options[1]
       IN (IF idx # correctIdx /\ idx + 1 <= Len(options) /\ options[idx + 1] # <<>>
           THEN <<"\n\nOption ", label, ") ">> \o options[idx + 1] \o <<" is not correct because it does not satisfy the requirements of the question or is not the best answer.">>
           ELSE <<>>)
          \o WhyNot(Tail(labels), q, correctIdx)

\* the response built for the question found at index qNum (0-based)
QuestionResponse(q, qNum, userInput) ==
  LET correctIdx == IF IsSome(q.correct_answer) THEN CharIndex(q.correct_answer[1]) ELSE -1
      shown(o) == IF IsSome(o) THEN o[1] ELSE <<"undefined">>
  IN <<"Q", ToString(qNum + 1), ": ">> \o q.question
     \o <<"\n\nOptions:\n">> \o OptionLines(q.options[1], 1)
     \o <<"\n\nCorrect Answer: ">> \o shown(q.correct_answer)
     \o <<"\n\nExplanation: ">> \o shown(q.explanation)
     \o WhyNot(UniqueLabels(userInput, 1, <<>>), q, correctIdx)

NoSuchQuestionResponse(qNum) ==
  <<"Sorry, your current quiz does not have a question ", ToString(qNum + 1),
    ". Please check the question number and try again.">>

Metadata == [iteration_count |-> 0]

\* a mutant of saveSessionState: a throwing update is not caught
saveSessionState_Rethrow(sessionId, state, outcome) ==
  [exception |-> outcome = "throw",
   update |-> Some([sessionId |-> sessionId,
                    current_node |-> state.current_node,
                    context |-> state.context,
                    conversation_history |-> state.context.conversation_history[1],
                    available_transitions |-> ModeTags])]

\* a mutant of saveSessionState: the node of the initial TutorState is written
saveSessionState_InitialNode(sessionId, state, outcome) ==
  [exception |-> FALSE,
   update |-> Some([sessionId |-> sessionId,
                    current_node |-> "router",
                    context |-> state.context,
                    conversation_history |-> state.context.conversation_history[1],
                    available_transitions |-> ModeTags])]

\* saveSessionState: the update it asks of the store; a failure is logged and
\* swallowed
saveSessionState(sessionId, state, outcome) ==
  [exception |-> FALSE,
   update |-> Some([sessionId |-> sessionId,
                    current_node |-> state.current_node,
                    context |-> state.context,
                    conversation_history |-> state.context.conversation_history[1],
                    available_transitions |-> ModeTags])]

\* the switch over targetNode
ExecuteNode(targetNode, state, completion) ==
  CASE targetNode = "code-feedback" -> executeCodeFeedbackNode(state, completion)
    [] targetNode = "concept-explainer" -> executeConceptExplainerNode(state, completion)
    [] targetNode = "quiz-generator" -> executeQuizGeneratorNode(state, completion)
    [] targetNode = "mistake-analyzer" -> executeMistakeAnalyzerNode(state, completion)
    [] OTHER -> executeConceptExplainerNode(state, completion)

Raised(calls, state) ==
  [exception |-> TRUE, result |-> None, update |-> None, calls |-> calls, state |-> state]

\* the body of the try block of executeGraph
ExecuteGraphTry(userId, sessionId, userInput, currentContext, env) ==
  LET userPreferences ==
        IF env.userThrows THEN Some(FallbackPreferences)
        ELSE IF IsSome(env.user) THEN env.user[1].preferences ELSE None
      ctx == IF IsSome(currentContext) THEN currentContext[1] ELSE EmptyContext
  IN
  IF IsSome(currentContext) /\ IsSome(ctx.quizContext) /\ QuestionReferenceTest(userInput)
  THEN \* quiz follow-up: the match always succeeds when the test did
    LET quiz == ctx.quizContext[1]
        qNum == parseInt(QuestionReferenceMatch(userInput)[1]) - 1
    IN
    IF IsSome(quiz.questions) /\ qNum >= 0 /\ qNum < Len(quiz.questions[1])
    THEN LET q == quiz.questions[1][qNum + 1] IN
         IF ~IsSome(q.options)
         THEN Raised(NoCalls, None)   \* q.options.map: TypeError
         ELSE [exception |-> FALSE,
               result |-> Some([response |-> QuestionResponse(q, qNum, userInput),
                                current_node |-> "quiz-generator",
                                available_transitions |-> ModeTags,
                                session_context |-> ctx,
                                metadata |-> Metadata]),
               update |-> None, calls |-> NoCalls, state |-> None]
    ELSE [exception |-> FALSE,
          result |-> Some([response |-> NoSuchQuestionResponse(qNum),
                           current_node |-> "quiz-generator",
                           available_transitions |-> ModeTags,
                           session_context |-> ctx,
                           metadata |-> Metadata]),
          update |-> None, calls |-> NoCalls, state |-> None]
  ELSE
    LET context0 ==
          Spread([EmptyContext EXCEPT
                    !.user_preferences = userPreferences,
                    !.conversation_history =
                       Some(IF IsSome(ctx.conversation_history)
                            THEN ctx.conversation_history[1] ELSE <<>>),
                    !.available_transitions = Some(<<>>),
                    !.user_input = Some(userInput)],
                 ctx)
        targetNode == determineNode(userInput)
        state0 == [current_node |-> targetNode, user_id |-> userId,
                   session_id |-> sessionId, context |-> context0,
                   metadata |-> Metadata]
        executed == ExecuteNode(targetNode, state0, env.completion)
        calls == [determineNode |-> 1, executor |-> Some(targetNode), completion |-> 1]
    IN
    IF executed.exception THEN Raised(calls, Some(state0))
    ELSE
      LET response == executed.value
          state1 == [state0 EXCEPT
                       !.context.node_output = Some(response),
                       !.context.conversation_history =
                          Some(Append(context0.conversation_history[1],
                                      [user_input |-> userInput, node |-> targetNode,
                                       response |-> response]))]
          saved == saveSessionState(sessionId, state1, env.update)
      IN
      IF saved.exception THEN Raised(calls, Some(state0))
      ELSE [exception |-> FALSE,
            result |-> Some([response |-> response,
                             current_node |-> targetNode,
                             available_transitions |-> ModeTags,
                             session_context |-> state1.context,
                             metadata |-> state1.metadata]),
            update |-> saved.update, calls |-> calls, state |-> Some(state0)]

\* a mutant of executeGraph: no top-level catch
executeGraph_NoCatch(userId, sessionId, userInput, currentContext, env) ==
  ExecuteGraphTry(userId, sessionId, userInput, currentContext, env)
    @@ [raised |-> ExecuteGraphTry(userId, sessionId, userInput, currentContext, env).exception]

\* a mutant of executeGraph: the fallback result offers no transitions
executeGraph_BareFallback(userId, sessionId, userInput, currentContext, env) ==
  LET try == ExecuteGraphTry(userId, sessionId, userInput, currentContext, env) IN
  IF try.exception
  THEN [exception |-> FALSE, raised |-> TRUE,
        result |-> Some([response |-> FallbackResponse,
                         current_node |-> "concept-explainer",
                         available_transitions |-> <<>>,
                         session_context |-> [EmptyContext EXCEPT
                                                !.user_input = Some(userInput),
                                                !.conversation_history = Some(<<>>)],
                         metadata |-> Metadata]),
        update |-> None, calls |-> try.calls, state |-> try.state]
  ELSE [exception |-> FALSE, raised |-> FALSE, result |-> try.result,
        update |-> try.update, calls |-> try.calls, state |-> try.state]

\* executeGraph: the try block, and the catch that turns any exception into the
\* generic fallback result.  raised records that the catch ran.
executeGraph(userId, sessionId, userInput, currentContext, env) ==
  LET try == ExecuteGraphTry(userId, sessionId, userInput, currentContext, env) IN
  IF try.exception
  THEN [exception |-> FALSE, raised |-> TRUE,
        result |-> Some([response |-> FallbackResponse,
                         current_node |-> "concept-explainer",
                         available_transitions |-> ModeTags,
                         session_context |-> [EmptyContext EXCEPT
                                                !.user_input = Some(userInput),
                                                !.conversation_history = Some(<<>>)],
                         metadata |-> Metadata]),
        update |-> None, calls |-> try.calls, state |-> try.state]
  ELSE [exception |-> FALSE, raised |-> FALSE, result |-> try.result,
        update |-> try.update, calls |-> try.calls, state |-> try.state]

\* ------------------------------------------------------------------------
\* The stores and the requests in flight
\* ------------------------------------------------------------------------
UserIds == {"u1"}

\* the registered users: the one above and a second one, who owns nothing the
\* first one created
Requesters == {"u1", "u2"}

\* the two transports that call executeGraph for a chat message
Adapters == {"http", "socket"}

DbOutcomes == {"ok", "error", "throw"}

\* outcomes of openai.chat.completions.create for a mode executor: it throws,
\* it yields no content, an empty content or a text
Completions ==
  { [throws |-> TRUE, content |-> None],
    [throws |-> FALSE, content |-> None],
    [throws |-> FALSE, content |-> Some(<<>>)],
    [throws |-> FALSE, content |-> Some(<<"a text written by the model">>)] }

\* the outcomes drawn for the turns of the chat specification
ChatCompletions == { c \in Completions : c.throws \/ Truthy(c.content) }

Idle == [pc |-> "idle"]

NewChatSession(userId) ==
  [user_id |-> userId, session_name |-> <<"Chat Session">>,
   current_node |-> "router", conversation_history |-> <<>>,
   context |-> EmptyContext, available_transitions |-> <<>>]

\* a mutant of the update: the conversation_history column is not written
updateChatSession_NoHistory(sessions, u) ==
  [sessions EXCEPT ![u.sessionId] =
     [@ EXCEPT !.current_node = u.current_node,
               !.context = u.context,
               !.available_transitions = u.available_transitions]]

\* a mutant of the update: the entries of the update that the stored history
\* does not hold are added to the stored history, instead of replacing it
updateChatSession_Merge(sessions, u) ==
  [sessions EXCEPT ![u.sessionId] =
     [@ EXCEPT !.current_node = u.current_node,
               !.context = u.context,
               !.conversation_history =
                  @ \o SelectSeq(u.conversation_history,
                                 LAMBDA e : \A i \in 1..Len(@) : @[i] # e),
               !.available_transitions = u.available_transitions]]

\* db.updateChatSession: the columns named in the update replace the stored ones
updateChatSession(sessions, u) ==
  [sessions EXCEPT ![u.sessionId] =
     [@ EXCEPT !.current_node = u.current_node,
               !.context = u.context,
               !.conversation_history = u.conversation_history,
               !.available_transitions = u.available_transitions]]

\* the session store after the update executeGraph asked for, under its outcome
AfterUpdate(sessions, out, outcome) ==
  IF IsSome(out.update) /\ outcome = "ok" /\ out.update[1].sessionId \in 1..Len(sessions)
  THEN updateChatSession(sessions, out.update[1])
  ELSE sessions

\* whether the update executeGraph asked for reached the store
Persisted(sessions, out, outcome) ==
  IsSome(out.update) /\ outcome = "ok" /\ out.update[1].sessionId \in 1..Len(sessions)

\* ------------------------------------------------------------------------
\* Router specification: determineNode applied to every bounded input
\* ------------------------------------------------------------------------
Fragments ==
  { kw_code, <<"D","e","b","u","g">>, <<"R","E","V","I","E","W">>, kw_feedback,
    <<"Q","u","i","z">>, kw_test, kw_question, kw_practice,
    kw_progress, <<"M","i","s","t","a","k","e">>, kw_track, kw_analysis,
    <<"c","o">>, <<"d","e">>, <<" ">>, <<"h","i">> }

\* the concatenations of at most n fragments
RECURSIVE Concatenations(_)
Concatenations(n) ==
  IF n = 0 THEN { <<>> }
  ELSE Concatenations(n - 1)
       \cup { s \o f : s \in Concatenations(n - 1), f \in Fragments }

RouterInputs == Concatenations(MaxFrags)

\* the browser clients of a user: each holds its own copy of the user's
\* preferences (the user of the auth store, taken at login) and the upgrade
\* quiz it shows
ClientIds == {"tab1", "tab2"}

InitStores ==
  /\ clients = [c \in ClientIds |->
                  [userId |-> "u1", preferences |-> RegisteredPreferences,
                   upgradeQuiz |-> None, pc |-> "idle"]]
  /\ chat_sessions = <<>>
  /\ quiz_sessions = <<>>
  /\ users = [u \in Requesters |-> [preferences |-> Some(RegisteredPreferences)]]
  /\ inflight = [a \in Adapters |-> Idle]
  /\ turns = 0

InitRouter ==
  /\ InitStores
  /\ \E s \in RouterInputs : last = [op |-> "input", userInput |-> s]

Route ==
  /\ last.op = "input"
  /\ last' = [op |-> "determineNode", userInput |-> last.userInput,
              node |-> determineNode(last.userInput)]
  /\ UNCHANGED <<chat_sessions, quiz_sessions, users, inflight, turns, clients>>

NextRouter == Route

SpecRouter == InitRouter /\ [][NextRouter]_vars

\* ------------------------------------------------------------------------
\* Chat specification: POST /api/chat/message and the socket event
\* chat:message.  A handler suspends at its awaits, so a request is modelled
\* in two steps: MessageBegin (validation, session creation, loading the
\* session context) and MessageFinish (executeGraph with its persistence, and
\* the reply).
\* ------------------------------------------------------------------------
ChatMessages ==
  { <<"R","e","v","i","e","w"," ","c","o","d","e">>, <<" ","q","u","i","z"," ","m","e"," ">>, <<" "," ">> }

\* POST /api/chat/message up to the call of executeGraph: the validation, the
\* session created when no id is given, the session read.  The result holds
\* the session store and either the error of the request or the arguments of
\* the call.
HttpMessage(sessions, userId, sessionId, message, create, get) ==
  IF trim(message) = <<>>
  THEN [error |-> Some("ValidationError"), text |-> <<"Message is required">>,
        sessions |-> sessions, call |-> None]
  ELSE IF ~IsSome(sessionId) /\ create # "ok"
  THEN [error |-> Some("CreateFailed"),
        text |-> IF create = "error" THEN <<"Failed to create chat session">>
                 ELSE <<"Internal error">>,
        sessions |-> sessions, call |-> None]
  ELSE
    LET stored == IF IsSome(sessionId) THEN sessions
                  ELSE Append(sessions, NewChatSession(userId))
        currentSessionId == IF IsSome(sessionId) THEN sessionId[1] ELSE Len(stored)
    IN IF get = "throw"
       THEN [error |-> Some("LoadFailed"), text |-> <<"Internal error">>,
             sessions |-> stored, call |-> None]
       ELSE [error |-> None, text |-> <<>>, sessions |-> stored,
             call |-> Some([userId |-> userId, sessionId |-> currentSessionId,
                            message |-> trim(message),
                            \* session?.context || {}
                            context |-> IF get = "ok" /\ currentSessionId \in 1..Len(stored)
                                        THEN stored[currentSessionId].context
                                        ELSE EmptyContext])]

\* a mutant of the socket handler: the message is handed on as it was sent
SocketMessage_NoTrim(sessions, userId, sessionId, message, create, get) ==
  IF trim(message) = <<>>
  THEN [error |-> Some("ValidationError"), text |-> <<"Message cannot be empty">>,
        sessions |-> sessions, call |-> None, emitted |-> <<"error">>]
  ELSE IF ~IsSome(sessionId) /\ create # "ok"
  THEN [error |-> Some("CreateFailed"), text |-> <<"Failed to create chat session">>,
        sessions |-> sessions, call |-> None, emitted |-> <<"chat:ai_thinking true">>]
  ELSE
    LET stored == IF IsSome(sessionId) THEN sessions
                  ELSE Append(sessions, NewChatSession(userId))
        currentSessionId == IF IsSome(sessionId) THEN sessionId[1] ELSE Len(stored)
    IN IF get = "throw"
       THEN [error |-> Some("LoadFailed"),
             text |-> <<"Failed to process your message. Please try again.">>,
             sessions |-> stored, call |-> None, emitted |-> <<"chat:ai_thinking true">>]
       ELSE [error |-> None, text |-> <<>>, sessions |-> stored,
             emitted |-> <<"chat:ai_thinking true">>,
             call |-> Some([userId |-> userId, sessionId |-> currentSessionId,
                            message |-> message,
                            context |-> IF get = "ok" /\ currentSessionId \in 1..Len(stored)
                                        THEN stored[currentSessionId].context
                                        ELSE EmptyContext])]

\* socket event chat:message up to the call of executeGraph.  Every failure is
\* caught by the handler, which then emits chat:ai_thinking false and an error
\* event; a session that could not be created (null) is reported by an error
\* event and a return.  emitted lists the events sent to the socket so far.
SocketMessage(sessions, userId, sessionId, message, create, get) ==
  IF trim(message) = <<>>
  THEN [error |-> Some("ValidationError"), text |-> <<"Message cannot be empty">>,
        sessions |-> sessions, call |-> None, emitted |-> <<"error">>]
  ELSE IF ~IsSome(sessionId) /\ create = "throw"
  THEN [error |-> Some("CreateFailed"),
        text |-> <<"Failed to process your message. Please try again.">>,
        sessions |-> sessions, call |-> None, emitted |-> <<"chat:ai_thinking true", "chat:ai_thinking false", "error">>]
  ELSE IF ~IsSome(sessionId) /\ create = "error"
  THEN [error |-> Some("CreateFailed"), text |-> <<"Failed to create chat session">>,
        sessions |-> sessions, call |-> None, emitted |-> <<"chat:ai_thinking true", "error">>]
  ELSE
    LET stored == IF IsSome(sessionId) THEN sessions
                  ELSE Append(sessions, NewChatSession(userId))
        currentSessionId == IF IsSome(sessionId) THEN sessionId[1] ELSE Len(stored)
    IN IF get = "throw"
       THEN [error |-> Some("LoadFailed"),
             text |-> <<"Failed to process your message. Please try again.">>,
             sessions |-> stored, call |-> None, emitted |-> <<"chat:ai_thinking true", "chat:ai_thinking false", "error">>]
       ELSE [error |-> None, text |-> <<>>, sessions |-> stored,
             emitted |-> <<"chat:ai_thinking true">>,
             call |-> Some([userId |-> userId, sessionId |-> currentSessionId,
                            message |-> trim(message),
                            context |-> IF get = "ok" /\ currentSessionId \in 1..Len(stored)
                                        THEN stored[currentSessionId].context
                                        ELSE EmptyContext])]

\* the first step of a message on either adapter
MessageBegin(a, userId, sessionId, message, create, get) ==
  /\ turns < MaxTurns
  /\ inflight[a].pc = "idle"
  /\ turns' = turns + 1
  /\ UNCHANGED <<quiz_sessions, users, clients>>
  /\ LET r == IF a = "http"
              THEN HttpMessage(chat_sessions, userId, sessionId, message, create, get)
              ELSE SocketMessage(chat_sessions, userId, sessionId, message, create, get)
     IN /\ chat_sessions' = r.sessions
        /\ IF IsSome(r.error)
           THEN /\ last' = [op |-> "message", adapter |-> a, error |-> r.error[1]]
                /\ UNCHANGED inflight
           ELSE /\ inflight' = [inflight EXCEPT ![a] =
                     [pc |-> "loaded", userId |-> r.call[1].userId,
                      sessionId |-> r.call[1].sessionId,
                      created |-> ~IsSome(sessionId),
                      message |-> r.call[1].message,
                      context |-> r.call[1].context,
                      \* the stored history when the context was loaded
                      history |-> r.sessions[r.call[1].sessionId].conversation_history]]
                /\ last' = [op |-> "loaded", adapter |-> a]

\* res.json(...) of POST /message, or the 500 of its catch
HttpReply(out, currentSessionId) ==
  IF out.exception
  THEN [success |-> FALSE, status |-> 500, data |-> None,
        sessionId |-> Some(currentSessionId)]
  ELSE [success |-> TRUE, status |-> 200, sessionId |-> Some(currentSessionId),
        data |-> Some([response |-> out.result[1].response,
                       sessionId |-> currentSessionId,
                       currentNode |-> out.result[1].current_node,
                       availableTransitions |-> out.result[1].available_transitions,
                       metadata |-> out.result[1].metadata])]

\* the chat:response event of chat:message, or the error event of its catch,
\* which names the session id of the request
SocketReply(out, currentSessionId, sessionId) ==
  IF out.exception
  THEN [event |-> "error", data |-> None, sessionId |-> sessionId]
  ELSE [event |-> "chat:response", sessionId |-> Some(currentSessionId),
        data |-> Some([response |-> out.result[1].response,
                       sessionId |-> currentSessionId,
                       currentNode |-> out.result[1].current_node,
                       availableTransitions |-> out.result[1].available_transitions,
                       timestamp |-> "now",
                       metadata |-> out.result[1].metadata])]

\* what a turn leaves for inspection: its inputs, the outcome of executeGraph
\* and the reply of the transport
TurnRecord(a, req, update, out, persisted) ==
  [op |-> "turn", adapter |-> a, userInput |-> req.message,
   sessionId |-> req.sessionId, created |-> req.created,
   updateOutcome |-> update, persisted |-> persisted,
   \* the stored history is no longer the one this turn loaded
   stale |-> chat_sessions[req.sessionId].conversation_history # req.history,
   exception |-> out.exception, raised |-> out.raised,
   response |-> IF out.exception THEN None ELSE Some(out.result[1].response),
   current_node |-> IF out.exception THEN None ELSE Some(out.result[1].current_node),
   calls |-> out.calls,
   \* state.context.user_input of the TutorState handed to the executor
   handed |-> IF IsSome(out.state) THEN out.state[1].context.user_input ELSE None,
   \* res.json(...) or the 500 of the route's catch
   reply |-> [success |-> ~out.exception, sessionId |-> req.sessionId]]

MessageFinish(a, getUser, completion, update) ==
  /\ inflight[a].pc = "loaded"
  /\ LET req == inflight[a]
         env == [userThrows |-> getUser = "throw",
                 user |-> IF getUser = "ok" THEN Some(users[req.userId]) ELSE None,
                 completion |-> completion, update |-> update]
     IN \E out \in {executeGraph(req.userId, req.sessionId, req.message, Some(req.context), env)} :
          /\ chat_sessions' = AfterUpdate(chat_sessions, out, update)
          /\ last' = TurnRecord(a, req, update, out,
                                Persisted(chat_sessions, out, update))
  /\ inflight' = [inflight EXCEPT ![a] = Idle]
  /\ UNCHANGED <<quiz_sessions, users, turns, clients>>

InitChat ==
  /\ InitStores
  /\ last = [op |-> "init"]

\* the outcome of a store call is drawn only where the handler makes the call
NextChat ==
  \/ \E a \in Adapters, u \in UserIds, m \in ChatMessages,
        sid \in {None} \cup {Some(i) : i \in 1..Len(chat_sessions)} :
       \E create \in (IF IsSome(sid) \/ trim(m) = <<>> THEN {"ok"} ELSE DbOutcomes) :
         \E get \in (IF create # "ok" \/ trim(m) = <<>> THEN {"ok"} ELSE DbOutcomes) :
           MessageBegin(a, u, sid, m, create, get)
  \/ \E a \in Adapters, getUser \in DbOutcomes,
        completion \in ChatCompletions, update \in DbOutcomes :
       MessageFinish(a, getUser, completion, update)

SpecChat == InitChat /\ [][NextChat]_vars

\* ------------------------------------------------------------------------
\* Executor specification: each mode executor applied to a bounded set of
\* TutorStates and completion outcomes
\* ------------------------------------------------------------------------
ExecPreferences ==
  { None, Some(RegisteredPreferences), Some(FallbackPreferences),
    Some([difficulty |-> None, preferred_languages |-> None, learning_style |-> None]),
    Some([difficulty |-> Some(s_advanced), preferred_languages |-> Some(<<>>),
          learning_style |-> Some(<<>>)]) }

ExecInputs ==
  { <<"R","e","v","i","e","w"," ","c","o","d","e">>, <<"q","u","i","z"," ","m","e">>, <<"w","h","a","t"," ","i","s"," ","x">>,
    <<"m","y"," ","m","i","s","t","a","k","e">>, <<"h","e","l","l","o">>, <<>> }

ExecStates ==
  { [current_node |-> "router", user_id |-> "u1", session_id |-> 1,
     context |-> [EmptyContext EXCEPT !.user_preferences = p,
                                      !.conversation_history = h,
                                      !.available_transitions = Some(<<>>),
                                      !.user_input = Some(i)],
     metadata |-> Metadata] :
    p \in ExecPreferences, i \in ExecInputs, h \in {None, Some(<<>>)} }

InitExec ==
  /\ InitStores
  /\ \E st \in ExecStates, c \in Completions :
       last = [op |-> "state", state |-> st, completion |-> c]

Executed(node, out) ==
  /\ last.op = "state"
  /\ last' = [op |-> "executed", node |-> node, state |-> last.state,
              completion |-> last.completion, out |-> out]
  /\ UNCHANGED <<chat_sessions, quiz_sessions, users, inflight, turns, clients>>

RunCodeFeedback ==
  Executed("code-feedback", executeCodeFeedbackNode(last.state, last.completion))

RunConceptExplainer ==
  Executed("concept-explainer", executeConceptExplainerNode(last.state, last.completion))

RunQuizGenerator ==
  Executed("quiz-generator", executeQuizGeneratorNode(last.state, last.completion))

RunMistakeAnalyzer ==
  Executed("mistake-analyzer", executeMistakeAnalyzerNode(last.state, last.completion))

NextExec ==
  \/ RunCodeFeedback
  \/ RunConceptExplainer
  \/ RunQuizGenerator
  \/ RunMistakeAnalyzer

SpecExec == InitExec /\ [][NextExec]_vars

\* ------------------------------------------------------------------------
\* Quiz generation.  The text of a completion is a sequence of tokens: the
\* code fences, the brackets and commas of a JSON array, white space, prose,
\* and one token per JSON value that can stand as an element of the array.
\* ------------------------------------------------------------------------
MaxItems == 2

MaxAnswers == 2

\* the JSON values the element tokens stand for
RawItems ==
  [tok \in {"{map}", "{arr}", "{bare}", "null"} |->
     CASE tok = "{map}" ->
            [null |-> FALSE, question |-> Some(<<"What is 1 + 1?">>),
             options |-> [kind |-> "map",
                          map |-> [a |-> Some(<<"X">>), b |-> Some(<<"Y">>),
                                   c |-> Some(<<"Z">>), d |-> Some(<<"W">>)],
                          list |-> <<>>],
             answer |-> Some(<<"b">>), explanation |-> Some(<<"because">>)]
       [] tok = "{arr}" ->
            [null |-> FALSE, question |-> Some(<<"What is 2 + 2?">>),
             options |-> [kind |-> "array",
                          map |-> [a |-> None, b |-> None, c |-> None, d |-> None],
                          list |-> << <<"X">>, <<"Y">>, <<"Z">>, <<"W">> >>],
             answer |-> Some(<<"B">>), explanation |-> Some(<<"since">>)]
       [] tok = "{bare}" ->
            [null |-> FALSE, question |-> Some(<<"What?">>),
             options |-> [kind |-> "missing",
                          map |-> [a |-> None, b |-> None, c |-> None, d |-> None],
                          list |-> <<>>],
             answer |-> None, explanation |-> None]
       [] tok = "null" ->
            [null |-> TRUE, question |-> None,
             options |-> [kind |-> "missing",
                          map |-> [a |-> None, b |-> None, c |-> None, d |-> None],
                          list |-> <<>>],
             answer |-> None, explanation |-> None]]

IsFence(tok) == tok = "<fence>json" \/ tok = "<fence>"

\* content.replace(fences, ''): the triple back-quote fences, with or without
\* the word json, are removed
RECURSIVE stripFences(_)
stripFences(content) ==
  IF content = <<>> THEN <<>>
  ELSE (IF IsFence(Head(content)) THEN <<>> ELSE <<Head(content)>>)
       \o stripFences(Tail(content))

\* content.match(/\[.*\]/s): from the first '[' to the last ']', or None
matchArray(content) ==
  LET opens == { i \in 1..Len(content) : content[i] = "[" }
      closes == { i \in 1..Len(content) : content[i] = "]" }
  IN IF opens # {} /\ closes # {}
        /\ (CHOOSE i \in opens : \A j \in opens : i <= j)
             < (CHOOSE i \in closes : \A j \in closes : i >= j)
     THEN Some(SubSeq(content,
                      CHOOSE i \in opens : \A j \in opens : i <= j,
                      CHOOSE i \in closes : \A j \in closes : i >= j))
     ELSE None

\* the tokens of a text without its white space
RECURSIVE withoutSpace(_)
withoutSpace(text) ==
  IF text = <<>> THEN <<>>
  ELSE (IF IsSpace(Head(text)) THEN <<>> ELSE <<Head(text)>>) \o withoutSpace(Tail(text))

\* JSON.parse of a text that starts with '[' and ends with ']': the array of
\* its elements, or a SyntaxError
JSONparse(text) ==
  LET inner == withoutSpace(SubSeq(text, 2, Len(text) - 1))
      wellFormed ==
        \/ inner = <<>>
        \/ /\ Len(inner) % 2 = 1
           /\ \A i \in 1..Len(inner) :
                IF i % 2 = 1 THEN inner[i] \in DOMAIN RawItems ELSE inner[i] = ","
  IN IF wellFormed
     THEN [exception |-> FALSE,
           value |-> [k \in 1..((Len(inner) + 1) \div 2) |-> RawItems[inner[2 * k - 1]]]]
     ELSE [exception |-> TRUE, value |-> <<>>]

\* the options of a raw question as an array
OptionsArray(options) ==
  CASE options.kind = "map" ->
         <<OrElse(options.map.a, <<>>), OrElse(options.map.b, <<>>),
           OrElse(options.map.c, <<>>), OrElse(options.map.d, <<>>)>>
    [] options.kind = "array" -> options.list
    [] OTHER -> <<>>

\* the QuizQuestion mapped from the raw question at index idx (0-based)
MappedQuestion(q, idx, quizDifficulty, topic) ==
  [id |-> Some(<<ToString(idx)>>),
   question |-> OrElse(q.question, <<>>),
   options |-> Some(OptionsArray(q.options)),
   correct_answer |-> Some(OrElse(q.answer, <<>>)),
   explanation |-> Some(OrElse(q.explanation, <<>>)),
   difficulty |-> Some(quizDifficulty),
   concepts |-> Some(<<topic>>)]

\* the single question returned when no quiz could be generated
PlaceholderQuestion(text, topic) ==
  [id |-> None, question |-> <<text>> \o topic, options |-> None,
   correct_answer |-> None, explanation |-> None, difficulty |-> None,
   concepts |-> None]

\* generateQuizQuestions.  env: userThrows and user as for executeGraph,
\* completion the outcome of the completion call.
generateQuizQuestions(topic, userId, difficulty, env) ==
  LET userPreferences ==
        IF ~env.userThrows /\ IsSome(env.user) THEN env.user[1].preferences ELSE None
      quizDifficulty ==
        toLowerCase(IF Truthy(difficulty) THEN difficulty[1]
                    ELSE PrefDifficulty(userPreferences))
      content == trim(stripFences(OrElse(env.completion.content, <<>>)))
      found == matchArray(content)
      failed == << PlaceholderQuestion("Failed to generate quiz for topic: ", topic) >>
  IN
  IF env.completion.throws THEN failed
  ELSE IF ~IsSome(found)
  THEN << PlaceholderQuestion("No quiz generated for topic: ", topic) >>
  ELSE LET parsed == JSONparse(found[1]) IN
       IF parsed.exception THEN failed
       ELSE IF \E k \in 1..Len(parsed.value) : parsed.value[k].null
       THEN failed   \* q.options of null: TypeError, caught
       ELSE [k \in 1..Len(parsed.value) |->
               MappedQuestion(parsed.value[k], k - 1, quizDifficulty, topic)]

\* ------------------------------------------------------------------------
\* The quiz routes and the test chat route
\* ------------------------------------------------------------------------
ItemTokens == {"{map}", "{arr}", "{bare}", "null"}

\* the sequences of at most n element tokens
RECURSIVE ItemSeqs(_)
ItemSeqs(n) ==
  IF n = 0 THEN { <<>> }
  ELSE ItemSeqs(n - 1) \cup { Append(xs, t) : xs \in ItemSeqs(n - 1), t \in ItemTokens }

RECURSIVE commaJoin(_)
commaJoin(xs) ==
  IF xs = <<>> THEN <<>>
  ELSE IF Len(xs) = 1 THEN <<xs[1]>>
  ELSE <<xs[1], ",", " ">> \o commaJoin(Tail(xs))

ArrayText(xs) == <<"[">> \o commaJoin(xs) \o <<"]">>

\* outcomes of the completion call of generateQuizQuestions: an exception, no
\* content, prose without an array, malformed arrays, and every well-formed
\* array of at most MaxItems elements, bare or fenced
QuizCompletions ==
  { [throws |-> TRUE, content |-> None],
    [throws |-> FALSE, content |-> None],
    [throws |-> FALSE, content |-> Some(<<"Sorry, I cannot help with that.">>)],
    [throws |-> FALSE, content |-> Some(<<"[", "{map}", ",", "]">>)],
    [throws |-> FALSE, content |-> Some(<<"First:", " ", "[", "{map}", "]", " ", "then", " ", "[", "{arr}", "]">>)],
    [throws |-> FALSE, content |-> Some(<<"]", "{map}", "[">>)] }
  \cup { [throws |-> FALSE, content |-> Some(ArrayText(xs))] : xs \in ItemSeqs(MaxItems) }
  \cup { [throws |-> FALSE, content |-> Some(<<"<fence>json", " ">> \o ArrayText(xs) \o <<" ", "<fence>">>)] :
           xs \in ItemSeqs(MaxItems) }

topic_js == <<"JavaScript">>

\* POST /api/quiz/sessions: with a topic the questions are generated; the
\* session is stored unless db.createQuizSession fails.  The route acts on the
\* server only: what the calling client does with the reply is stated where
\* the route is called.
CreateQuizSession(userId, topic, total_questions, difficulty, getUser, completion, create) ==
  /\ LET env == [userThrows |-> getUser = "throw",
                 user |-> IF getUser = "ok" THEN Some(users[userId]) ELSE None,
                 completion |-> completion]
         aiQuestions == IF IsSome(topic)
                        THEN generateQuizQuestions(topic[1], userId, difficulty, env)
                        ELSE <<>>
         session == [user_id |-> userId, questions |-> aiQuestions, answers |-> <<>>,
                     score |-> 0, total_questions |-> total_questions,
                     completed |-> FALSE]
     IN /\ quiz_sessions' = IF create = "ok" THEN Append(quiz_sessions, session)
                            ELSE quiz_sessions
        /\ last' = [op |-> "create-quiz", generated |-> IsSome(topic),
                    completion |-> completion, questions |-> aiQuestions,
                    stored |-> create = "ok"]
  /\ UNCHANGED <<chat_sessions, users, inflight, turns>>

\* questions.find(qq => qq.id === id): the first question with that id
FindQuestion(questions, id) ==
  IF \E i \in 1..Len(questions) : questions[i].id = id
  THEN Some(questions[CHOOSE i \in 1..Len(questions) :
                        /\ questions[i].id = id
                        /\ \A h \in 1..(i - 1) : questions[h].id # id])
  ELSE None

\* a mutant of the comparison: the case of the answer is ignored
IsCorrect_IgnoreCase(questions, ans) ==
  LET q == FindQuestion(questions, ans.question_id) IN
  /\ IsSome(q)
  /\ IsSome(ans.user_answer) = IsSome(q[1].correct_answer)
  /\ IsSome(ans.user_answer) =>
       toLowerCase(ans.user_answer[1]) = toLowerCase(q[1].correct_answer[1])

\* q && ans.user_answer === q.correct_answer
IsCorrect(questions, ans) ==
  LET q == FindQuestion(questions, ans.question_id) IN
  IsSome(q) /\ ans.user_answer = q[1].correct_answer

\* answers.map(...): the graded answers
DetailedAnswers(questions, answers) ==
  [i \in 1..Len(answers) |->
     [question_id |-> answers[i].question_id,
      user_answer |-> answers[i].user_answer,
      is_correct |-> IsCorrect(questions, answers[i])]]

\* the number of graded answers that are correct
RECURSIVE Score(_)
Score(detailed) ==
  IF detailed = <<>> THEN 0
  ELSE (IF Head(detailed).is_correct THEN 1 ELSE 0) + Score(Tail(detailed))

\* detailedAnswers.filter(a => !a.is_correct).map(...)
RECURSIVE WrongExplanations(_, _)
WrongExplanations(questions, detailed) ==
  IF detailed = <<>> THEN <<>>
  ELSE LET q == FindQuestion(questions, Head(detailed).question_id) IN
       (IF Head(detailed).is_correct THEN <<>>
        ELSE << [question |-> IF IsSome(q) THEN Some(q[1].question) ELSE None,
                 correct_answer |-> IF IsSome(q) THEN q[1].correct_answer ELSE None,
                 explanation |-> IF IsSome(q) THEN q[1].explanation ELSE None] >>)
       \o WrongExplanations(questions, Tail(detailed))

\* a mutant of the update of a submission: total_questions is set to the
\* number of submitted answers
SubmitUpdate_Recount(row, detailedAnswers, score) ==
  [row EXCEPT !.answers = detailedAnswers, !.score = score, !.completed = TRUE,
              !.total_questions = Len(detailedAnswers)]

\* the update of a submission: { answers, score, completed: true, completed_at }
\* over the stored row
SubmitUpdate(row, detailedAnswers, score) ==
  [row EXCEPT !.answers = detailedAnswers, !.score = score, !.completed = TRUE]

\* POST /api/quiz/sessions/:sessionId/submit.  list is the outcome of
\* db.getUserQuizSessions, update that of db.updateQuizSession.
SubmitAnswers(userId, sessionId, answers, list, update) ==
  /\ UNCHANGED <<chat_sessions, users, inflight, turns>>
  /\ IF list = "throw"
     THEN /\ last' = [op |-> "submit", status |-> 500, list |-> list, update |-> update,
                      userId |-> userId, sessionId |-> sessionId]
          /\ UNCHANGED quiz_sessions
     ELSE IF list = "error" \/ sessionId \notin 1..Len(quiz_sessions)
             \/ quiz_sessions[sessionId].user_id # userId
     THEN /\ last' = [op |-> "submit", status |-> 404, list |-> list, update |-> update,
                      userId |-> userId, sessionId |-> sessionId]
          /\ UNCHANGED quiz_sessions
     ELSE LET questions == quiz_sessions[sessionId].questions
              detailedAnswers == DetailedAnswers(questions, answers)
              score == Score(detailedAnswers)
          IN /\ quiz_sessions' =
                  IF update = "ok"
                  THEN [quiz_sessions EXCEPT ![sessionId] =
                          SubmitUpdate(@, detailedAnswers, score)]
                  ELSE quiz_sessions
             /\ last' = IF update = "throw"
                        THEN [op |-> "submit", status |-> 500, list |-> list,
                              update |-> update,
                              userId |-> userId, sessionId |-> sessionId]
                        ELSE [op |-> "submit", status |-> 200, list |-> list,
                              update |-> update, userId |-> userId,
                              sessionId |-> sessionId, answers |-> answers,
                              \* the session was completed before this submission
                              resubmission |-> quiz_sessions[sessionId].completed,
                              score |-> score, total_questions |-> Len(questions),
                              wrong_explanations |-> WrongExplanations(questions, detailedAnswers)]

\* POST /api/test/ai-chat: executeGraph for a fixed test user and a session id
\* that names no stored session, with the context the client sends: the quiz
\* session it is looking at, as quizContext, or nothing
test_user == "test_user_123"

DefaultMessage == <<"H","e","l","l","o",","," ","I"," ","n","e","e","d"," ","h","e","l","p"," ","w","i","t","h"," ","p","r","o","g","r","a","m","m","i","n","g">>

AiChat(message, withQuiz, getUser, completion, update) ==
  /\ withQuiz => quiz_sessions # <<>>
  /\ LET userInput == IF message # <<>> THEN message ELSE DefaultMessage
         context == IF withQuiz
                    THEN [EmptyContext EXCEPT
                            !.quizContext =
                               Some([questions |-> Some(quiz_sessions[1].questions)])]
                    ELSE EmptyContext
         env == [userThrows |-> getUser = "throw", user |-> None,
                 completion |-> completion, update |-> update]
     IN \E out \in {executeGraph(test_user, 0, userInput, Some(context), env)} :
          last' = [op |-> "ai-chat", userInput |-> userInput, withQuiz |-> withQuiz,
                   questions |-> IF withQuiz THEN quiz_sessions[1].questions ELSE <<>>,
                   exception |-> out.exception, raised |-> out.raised,
                   response |-> IF out.exception THEN None ELSE Some(out.result[1].response),
                   current_node |-> IF out.exception THEN None
                                    ELSE Some(out.result[1].current_node),
                   available_transitions |-> IF out.exception THEN None
                                             ELSE Some(out.result[1].available_transitions),
                   session_context |-> IF out.exception THEN None
                                       ELSE Some(out.result[1].session_context),
                   \* the update of the session store the turn asked for
                   update |-> out.update,
                   calls |-> out.calls,
                   \* res.json(...) or the 500 of the route's catch
                   status |-> IF out.exception THEN 500 ELSE 200]
  /\ UNCHANGED <<chat_sessions, quiz_sessions, users, inflight, turns, clients>>

\* ------------------------------------------------------------------------
\* Quiz specification: a quiz session is created, and chat messages are sent
\* through the test route with or without that quiz as context
\* ------------------------------------------------------------------------
FollowUps ==
  { <<"q","u","e","s","t","i","o","n"," ","2">>, <<"Q","1">>, <<"a","n","s","w","e","r"," ","t","o"," ","3">>,
    <<"q","u","e","s","t","i","o","n","0">>, <<"w","h","y"," ","n","o","t"," ","b"," ","i","n"," ","q","u","e","s","t","i","o","n"," "," ","1">>,
    <<"q","u","e","s","t","i","o","n"," ","1","2">>, <<"q","u","i","z"," ","m","e">>, <<>> }

QuizDifficulties == { None, Some(<<"A","d","v","a","n","c","e","d">>) }

InitQuiz ==
  /\ InitStores
  /\ last = [op |-> "init"]

NextQuiz ==
  \/ /\ quiz_sessions = <<>>   \* one quiz session is created
     /\ \E u \in UserIds, topic \in {None, Some(topic_js)}, difficulty \in QuizDifficulties,
        getUser \in DbOutcomes, create \in {"ok", "error"} :
       \E completion \in (IF IsSome(topic) THEN QuizCompletions
                          ELSE {[throws |-> FALSE, content |-> None]}) :
         /\ CreateQuizSession(u, topic, 5, difficulty, getUser, completion, create)
         /\ UNCHANGED clients
  \/ /\ last.op # "ai-chat"   \* the route keeps no state: one call per store state
     /\ \E m \in FollowUps, withQuiz \in BOOLEAN, getUser \in {"error", "throw"},
           completion \in ChatCompletions, update \in {"error", "throw"} :
          AiChat(m, withQuiz, getUser, completion, update)

SpecQuiz == InitQuiz /\ [][NextQuiz]_vars

\* ------------------------------------------------------------------------
\* Submission specification: a quiz session is created and one set of answers
\* is submitted
\* ------------------------------------------------------------------------
SubmitCompletions ==
  { [throws |-> TRUE, content |-> None],
    [throws |-> FALSE, content |-> Some(ArrayText(<<"{map}", "{arr}">>))],
    [throws |-> FALSE, content |-> Some(ArrayText(<<"{arr}">>))] }

\* the answers a client can send for a list of questions: the id of a
\* question, an id of no question or no id; an option letter in either case,
\* or no answer
SubmittedAnswers(questions) ==
  { [question_id |-> id, user_answer |-> ua] :
      id \in {questions[i].id : i \in 1..Len(questions)} \cup {Some(<<"zz">>), None},
      ua \in {Some(<<"b">>), Some(<<"B">>), Some(<<"a">>), None} }

\* the sequences of at most n answers
RECURSIVE AnswerSeqs(_, _)
AnswerSeqs(questions, n) ==
  IF n = 0 THEN { <<>> }
  ELSE AnswerSeqs(questions, n - 1)
       \cup { Append(xs, x) : xs \in AnswerSeqs(questions, n - 1),
                              x \in SubmittedAnswers(questions) }

NextSubmit ==
  \/ /\ quiz_sessions = <<>>   \* one quiz session is created
     /\ \E u \in UserIds, completion \in SubmitCompletions, create \in {"ok", "error"} :
       /\ CreateQuizSession(u, Some(topic_js), 5, None, "ok", completion, create)
       /\ UNCHANGED clients
  \/ /\ last.op # "submit"
     /\ \E u \in UserIds, sid \in 1..(Len(quiz_sessions) + 1), list \in DbOutcomes :
       \E update \in (IF list = "ok" THEN DbOutcomes ELSE {"ok"}) :
         \E answers \in (IF list = "ok" /\ sid <= Len(quiz_sessions)
                         THEN AnswerSeqs(quiz_sessions[sid].questions, MaxAnswers)
                         ELSE { <<>> }) :
           /\ SubmitAnswers(u, sid, answers, list, update)
           /\ UNCHANGED clients

SpecSubmit == InitQuiz /\ [][NextSubmit]_vars

\* ========================================================================
\* Claims
\* ========================================================================
AnyOf(s, words) == \E w \in words : includes(s, w)

CodeWords == {kw_code, kw_debug, kw_review, kw_feedback}

QuizWords == {kw_quiz, kw_test, kw_question, kw_practice}

ProgressWords == {kw_progress, kw_mistake, kw_track, kw_analysis}

\* C1: for every input string, the empty one included, determineNode returns
\* code-feedback when the lower-cased input contains a code token; else
\* quiz-generator when it contains a quiz token; else mistake-analyzer when it
\* contains a progress token; else concept-explainer.  The highest-priority
\* group wins and the result is never 'router'.
C1_RouterPriority ==
  last.op = "determineNode" =>
    LET s == toLowerCase(last.userInput) IN
    /\ AnyOf(s, CodeWords) => last.node = "code-feedback"
    /\ ~AnyOf(s, CodeWords) /\ AnyOf(s, QuizWords) => last.node = "quiz-generator"
    /\ ~AnyOf(s, CodeWords) /\ ~AnyOf(s, QuizWords) /\ AnyOf(s, ProgressWords)
         => last.node = "mistake-analyzer"
    /\ ~AnyOf(s, CodeWords) /\ ~AnyOf(s, QuizWords) /\ ~AnyOf(s, ProgressWords)
         => last.node = "concept-explainer"
    /\ last.userInput = <<>> => last.node = "concept-explainer"
    /\ last.node # "router"

\* an input holding an upper-case quiz token and a code token is routed to
\* code-feedback
C1_Witness ==
  /\ last.op = "determineNode"
  /\ last.userInput = <<"Q","u","i","z","c","o","d","e">>
  /\ last.node = "code-feedback"

\* C2: in every turn the user_input of the TutorState handed to the executor
\* is the raw input of that turn, also when the loaded session context holds
\* a user_input written by an earlier turn.
C2_HandedInputIsCurrent ==
  (last.op = "turn" /\ IsSome(last.handed)) => last.handed = Some(last.userInput)

\* C3: after a turn that is dispatched to an executor and whose persistence
\* succeeds, the persisted conversation_history is the history the turn loaded
\* followed by one entry with this turn's input, the routed mode and the
\* returned response; a first message without a session id leaves its new
\* session, whose id is returned, with a history of length 1.
C3_HistoryAppended ==
  [][\A a \in Adapters :
       (inflight[a].pc = "loaded" /\ inflight'[a].pc = "idle" /\ last'.persisted) =>
         LET req == inflight[a]
             loaded == IF IsSome(req.context.conversation_history)
                       THEN req.context.conversation_history[1] ELSE <<>>
             stored == chat_sessions'[req.sessionId].conversation_history
         IN /\ IsSome(last'.calls.executor)
            /\ stored = Append(loaded, [user_input |-> req.message,
                                        node |-> last'.calls.executor[1],
                                        response |-> last'.response[1]])
            /\ last'.current_node = last'.calls.executor
            /\ req.created =>
                 /\ Len(stored) = 1
                 /\ last'.reply.success /\ last'.reply.sessionId = req.sessionId
                 /\ req.sessionId \in 1..Len(chat_sessions')]_vars

\* a second turn on an existing session was persisted: two history entries
C3_Witness ==
  /\ last.op = "turn" /\ last.persisted /\ ~last.created
  /\ Len(chat_sessions[last.sessionId].conversation_history) = 2
  /\ chat_sessions[last.sessionId].conversation_history[2].user_input = last.userInput

ModePrefix(node) ==
  CASE node = "code-feedback" -> CodeFeedbackPrefix
    [] node = "concept-explainer" -> ConceptExplainerPrefix
    [] node = "quiz-generator" -> QuizPrefix
    [] node = "mistake-analyzer" -> ProgressAnalyzerPrefix

\* C5: for each of the four executors, when the completion call throws or
\* yields an empty result, the executor returns a non-empty string that starts
\* with the mode's bracketed prefix, and no exception escapes.
C5_ExecutorFallback ==
  (last.op = "executed" /\ (last.completion.throws \/ ~Truthy(last.completion.content))) =>
    /\ ~last.out.exception
    /\ last.out.value # <<>>
    /\ Head(last.out.value) = ModePrefix(last.node)

\* the quiz executor answered a throwing completion with its template
C5_Witness ==
  /\ last.op = "executed" /\ last.node = "quiz-generator"
  /\ last.completion.throws
  /\ ~last.out.exception /\ Head(last.out.value) = QuizPrefix
  /\ Len(last.out.value) > 1

\* C6: when the session-store update at the end of a turn fails (it returns an
\* error or throws), executeGraph still returns the executor's response tagged
\* with the routed mode, the same result as when the write succeeds, and not
\* the generic fallback.
C6_UpdateFailureKeepsResult ==
  /\ (last.op = "turn" /\ IsSome(last.calls.executor) /\ last.updateOutcome # "ok") =>
       /\ ~last.exception /\ ~last.raised
       /\ last.current_node = Some(determineNode(last.userInput))
       /\ last.response # Some(FallbackResponse)
  /\ \A a \in Adapters : inflight[a].pc = "loaded" =>
       \A getUser \in DbOutcomes, completion \in ChatCompletions, update \in {"error", "throw"} :
         LET req == inflight[a]
             env == [userThrows |-> getUser = "throw",
                     user |-> IF getUser = "ok" THEN Some(users[req.userId]) ELSE None,
                     completion |-> completion, update |-> update]
             failed == executeGraph(req.userId, req.sessionId, req.message, Some(req.context), env)
             succeeded == executeGraph(req.userId, req.sessionId, req.message, Some(req.context),
                                       [env EXCEPT !.update = "ok"])
         IN failed.exception = FALSE /\ failed.result = succeeded.result

\* a turn whose update threw returned the code-feedback response
C6_Witness ==
  /\ last.op = "turn" /\ last.updateOutcome = "throw" /\ ~last.persisted
  /\ last.calls.executor = Some("code-feedback")
  /\ last.current_node = Some("code-feedback")
  /\ ~last.raised

IsFollowUp ==
  last.op = "ai-chat" /\ last.withQuiz /\ QuestionReferenceTest(last.userInput)

\* C7: whenever the prior context of a turn carries a quiz and the input
\* matches the question-reference pattern, the turn calls neither the router,
\* nor an executor, nor the completion collaborator, and its result is tagged
\* quiz-generator.
C7_FollowUpBypasses ==
  IsFollowUp =>
    /\ last.calls = NoCalls
    /\ last.current_node = Some("quiz-generator")

\* the number N named by a follow-up
NamedNumber == parseInt(QuestionReferenceMatch(last.userInput)[1])

\* the response presents question q as number n: its text, its options, its
\* correct answer and its explanation
Presents(response, q, n) ==
  /\ Len(response) >= 3
  /\ SubSeq(response, 1, 3) = <<"Q", ToString(n), ": ">>
  /\ includes(response, q.question)
  /\ IsSome(q.options) => \A i \in 1..Len(q.options[1]) : includes(response, q.options[1][i])
  /\ IsSome(q.correct_answer) =>
       includes(response, <<"\n\nCorrect Answer: ">> \o q.correct_answer[1])
  /\ IsSome(q.explanation) =>
       includes(response, <<"\n\nExplanation: ">> \o q.explanation[1])

\* C8: an intercepted quiz follow-up naming number N presents the question
\* stored at index N-1 with its options, correct answer and explanation when
\* 1 <= N <= number of questions, and is the "no such question" message for
\* every other N; both outcomes are tagged quiz-generator.
C8_FollowUpAnswer ==
  IsFollowUp =>
    /\ last.current_node = Some("quiz-generator")
    /\ IsSome(last.response)
    /\ IF NamedNumber >= 1 /\ NamedNumber <= Len(last.questions)
       THEN Presents(last.response[1], last.questions[NamedNumber], NamedNumber)
       ELSE last.response[1] = NoSuchQuestionResponse(NamedNumber - 1)

\* C9: the score of a submission is the number of submitted answers whose
\* question_id is the id of a stored question and whose user_answer is exactly
\* that question's correct_answer (no case or white-space normalisation); every
\* other answer yields one wrong_explanations entry, so the score plus the
\* number of wrong_explanations is the number of submitted answers.
C9_ScoreCountsExactMatches ==
  (last.op = "submit" /\ last.status = 200) =>
    LET questions == quiz_sessions[last.sessionId].questions
        right == { i \in 1..Len(last.answers) :
                     \E k \in 1..Len(questions) :
                       /\ questions[k].id = last.answers[i].question_id
                       /\ \A h \in 1..(k - 1) : questions[h].id # last.answers[i].question_id
                       /\ questions[k].correct_answer = last.answers[i].user_answer }
    IN /\ last.score = Cardinality(right)
       /\ Len(last.wrong_explanations) = Len(last.answers) - last.score
       /\ last.score + Len(last.wrong_explanations) = Len(last.answers)

\* two answers to the same question, one exact and one differing in case only:
\* the score is 1 and there is one wrong explanation
C9_Witness ==
  /\ last.op = "submit" /\ last.status = 200
  /\ Len(last.answers) = 2
  /\ last.answers[1].question_id = last.answers[2].question_id
  /\ last.answers[1].user_answer = Some(<<"b">>)
  /\ last.answers[2].user_answer = Some(<<"B">>)
  /\ last.score = 1
  /\ Len(last.wrong_explanations) = 1

\* C10: generateQuizQuestions returns at least one element for every outcome
\* of the completion call: an exception, empty content, text without a JSON
\* array, malformed JSON, or a well-formed JSON array of any length.
C10_NonEmptyList ==
  (last.op = "create-quiz" /\ last.generated) => Len(last.questions) >= 1

\* the options of a returned question given again as a list
AsListOptions(opts) ==
  [kind |-> "array", map |-> [a |-> None, b |-> None, c |-> None, d |-> None],
   list |-> opts]

\* C11: every question returned by generateQuizQuestions has options as an
\* ordered list of exactly 4 strings, and normalising the returned list again
\* leaves it unchanged.
C11_FourOptions ==
  (last.op = "create-quiz" /\ last.generated) =>
    \A i \in 1..Len(last.questions) :
      /\ IsSome(last.questions[i].options)
      /\ Len(last.questions[i].options[1]) = 4
      /\ OptionsArray(AsListOptions(last.questions[i].options[1]))
           = last.questions[i].options[1]

\* ========================================================================
\* The upgrade-tier flow of the client, and PUT /api/auth/profile
\* ========================================================================
\* the quiz sessions stored in a behaviour of the upgrade specification
MaxUpgrades == 2

\* the number of questions the completion returns for an upgrade quiz
UpgradeLength == 6

\* total_questions of the upgrade quiz
UpgradeTotal == 10

\* const passed = score >= 6
PassingScore == 6

Tiers == <<s_beginner, s_intermediate, s_advanced>>

\* the position of a difficulty among the tiers, 0 when it is none of them
TierRank(d) ==
  IF \E i \in 1..3 : d = Some(Tiers[i])
  THEN CHOOSE i \in 1..3 : d = Some(Tiers[i])
  ELSE 0

\* newLevel of handleUpgradeQuizSubmit
newLevel(difficulty) ==
  IF difficulty = Some(s_beginner) THEN s_intermediate
  ELSE IF difficulty = Some(s_intermediate) THEN s_advanced
  ELSE s_advanced

validLearningStyles == { <<"visual">>, <<"text">>, <<"hands-on">> }

\* the validation of PUT /profile: a field that is present and not '' must be
\* one of the valid values
ValidPreferences(preferences) ==
  /\ Truthy(preferences.difficulty) =>
       \E i \in 1..3 : preferences.difficulty[1] = Tiers[i]
  /\ Truthy(preferences.learning_style) =>
       preferences.learning_style[1] \in validLearningStyles

\* PUT /api/auth/profile with a preferences object.  getUser and update are
\* the outcomes of db.getUserById and db.updateUserPreferences.  The result
\* is [status, users, preferences]: the reply's status, the user store after
\* the request and the preferences of the returned user.
PutProfile(userId, preferences, getUser, update) ==
  IF ~ValidPreferences(preferences)
  THEN [status |-> 400, users |-> users, preferences |-> None]
  ELSE IF getUser # "ok"
  THEN \* currentUser!.preferences of null, or the rejected read
       [status |-> 500, users |-> users, preferences |-> None]
  ELSE LET merged == [f \in DOMAIN preferences |->
                        IF IsSome(preferences[f]) THEN preferences[f]
                        ELSE users[userId].preferences[1][f]]
       IN IF update = "ok"
          THEN [status |-> 200,
                users |-> [users EXCEPT ![userId].preferences = Some(merged)],
                preferences |-> Some(merged)]
          ELSE [status |-> 500, users |-> users, preferences |-> None]

\* the completion of an upgrade quiz: UpgradeLength questions with options
RECURSIVE Repeat(_, _)
Repeat(x, n) == IF n = 0 THEN <<>> ELSE <<x>> \o Repeat(x, n - 1)

UpgradeCompletion ==
  [throws |-> FALSE, content |-> Some(ArrayText(Repeat("{map}", UpgradeLength)))]

\* handleStartUpgradeQuiz: a quiz of UpgradeTotal questions at the difficulty
\* the client holds; the client keeps the returned session
handleStartUpgradeQuiz(c, create) ==
  /\ clients[c].pc = "idle"
  /\ Len(quiz_sessions) < MaxUpgrades
  /\ LET held == clients[c].preferences.difficulty
         difficulty == IF Truthy(held) THEN held ELSE Some(s_beginner)
     IN CreateQuizSession(clients[c].userId, Some(topic_js), UpgradeTotal, difficulty,
                          "ok", UpgradeCompletion, create)
  /\ clients' = [clients EXCEPT ![c].upgradeQuiz =
                   IF create = "ok" THEN Some(Len(quiz_sessions) + 1) ELSE None]

\* the answers the client sends: upgradeQuiz.questions.map(...), where the
\* first right questions were answered correctly and the others not at all
UpgradeAnswers(questions, right) ==
  [i \in 1..Len(questions) |->
     [question_id |-> questions[i].id,
      user_answer |-> IF i <= right THEN questions[i].correct_answer ELSE None]]

\* handleUpgradeQuizSubmit up to the reply of the submission: with a passing
\* score the client goes on to send the new level, computed from the
\* preferences it holds
handleUpgradeQuizSubmit(c, right, update) ==
  /\ clients[c].pc = "idle"
  /\ IsSome(clients[c].upgradeQuiz)
  /\ LET sid == clients[c].upgradeQuiz[1]
         answers == UpgradeAnswers(quiz_sessions[sid].questions, right)
     IN SubmitAnswers(clients[c].userId, sid, answers, "ok", update)
  /\ clients' = [clients EXCEPT ![c].pc =
                   IF last'.status = 200 /\ last'.score >= PassingScore
                   THEN "passed" ELSE "idle"]

\* the rest of handleUpgradeQuizSubmit: updateUserPreferences with the new
\* level, and setUser with the returned user when the request succeeded
UpgradeLevel(c, getUser, update) ==
  /\ clients[c].pc = "passed"
  /\ LET held == clients[c].preferences
         sent == [held EXCEPT !.difficulty = Some(newLevel(held.difficulty))]
         reply == PutProfile(clients[c].userId, sent, getUser, update)
     IN /\ users' = reply.users
        /\ clients' = [clients EXCEPT
                         ![c].pc = "idle",
                         ![c].preferences = IF reply.status = 200
                                            THEN reply.preferences[1] ELSE @]
        /\ last' = [op |-> "upgrade", client |-> c, status |-> reply.status,
                    sent |-> sent.difficulty,
                    before |-> users[clients[c].userId].preferences[1].difficulty]
  /\ UNCHANGED <<chat_sessions, quiz_sessions, inflight, turns>>

InitUpgrade ==
  /\ InitStores
  /\ last = [op |-> "init"]

NextUpgrade ==
  \/ \E c \in ClientIds, create \in {"ok", "error"} : handleStartUpgradeQuiz(c, create)
  \/ \E c \in ClientIds, right \in {PassingScore - 1, PassingScore} :
       handleUpgradeQuizSubmit(c, right, "ok")
  \/ \E c \in ClientIds, getUser \in {"ok", "error"}, update \in {"ok", "error"} :
       UpgradeLevel(c, getUser, update)

SpecUpgrade == InitUpgrade /\ [][NextUpgrade]_vars

StoredDifficulty(u) == users[u].preferences[1].difficulty

\* C12: after an upgrade-quiz submission the stored difficulty moves exactly
\* one tier up (advanced stays advanced) if and only if the returned score is
\* at least 6, and is unchanged with a lower score; over any sequence of
\* upgrade submissions the tier never decreases and never skips a tier.
\* Stated for the steps of the flow whose requests succeed.
C12_OneTierUp ==
  [][
      /\ \A c \in ClientIds :
          \* the submission step: only a passing score leads to a promotion
          /\ (clients[c].pc = "idle" /\ last'.op = "submit" /\ clients'[c] # clients[c]) =>
               (last'.status = 200 /\ last'.score >= PassingScore)
          /\ (clients[c].pc = "idle" /\ last'.op = "submit") => users' = users
          \* the promotion step
          /\ (clients[c].pc = "passed" /\ clients'[c].pc = "idle" /\ last'.status = 200) =>
               TierRank(StoredDifficulty(clients[c].userId)') =
                 (IF TierRank(StoredDifficulty(clients[c].userId)) = 3 THEN 3
                  ELSE TierRank(StoredDifficulty(clients[c].userId)) + 1)
      /\ \A u \in UserIds :
           /\ TierRank(StoredDifficulty(u)') >= TierRank(StoredDifficulty(u))
           /\ TierRank(StoredDifficulty(u)') <= TierRank(StoredDifficulty(u)) + 1]_vars

\* ========================================================================
\* The other chat-session operations: get, rename, chat:join and switch-node
\* ========================================================================
\* GET /api/chat/sessions/:sessionId.  get is the outcome of db.getChatSession.
GetSession(userId, sessionId, get) ==
  /\ last' =
       IF get = "throw" THEN [op |-> "get-session", userId |-> userId, status |-> 500,
                              error |-> <<"Internal error">>, session |-> None]
       ELSE IF get = "error" \/ sessionId \notin 1..Len(chat_sessions)
       THEN [op |-> "get-session", userId |-> userId, status |-> 400,
             error |-> <<"Chat session not found">>, session |-> None]
       ELSE IF chat_sessions[sessionId].user_id # userId
       THEN [op |-> "get-session", userId |-> userId, status |-> 400,
             error |-> <<"Access denied to this chat session">>, session |-> None]
       ELSE [op |-> "get-session", userId |-> userId, status |-> 200, error |-> <<>>,
             session |-> Some([id |-> sessionId,
                               user_id |-> chat_sessions[sessionId].user_id,
                               context |-> chat_sessions[sessionId].context,
                               conversationHistory |->
                                  chat_sessions[sessionId].conversation_history])]
  /\ UNCHANGED <<chat_sessions, quiz_sessions, users, inflight, turns, clients>>

\* POST /api/chat/sessions/:sessionId/rename
RenameSession(userId, sessionId, name, get, update) ==
  /\ LET denied(status, text) ==
           /\ last' = [op |-> "rename", userId |-> userId, sessionId |-> sessionId,
                       status |-> status, error |-> text]
           /\ UNCHANGED chat_sessions
     IN IF trim(name) = <<>> THEN denied(400, <<"Session name is required">>)
        ELSE IF get = "throw" THEN denied(500, <<"Internal error">>)
        ELSE IF get = "error" \/ sessionId \notin 1..Len(chat_sessions)
        THEN denied(400, <<"Chat session not found">>)
        ELSE IF chat_sessions[sessionId].user_id # userId
        THEN denied(400, <<"Access denied to this chat session">>)
        ELSE IF update # "ok"
        THEN denied(500, <<"Internal error">>)   \* the rejected update, or updatedSession!.id of null
        ELSE /\ chat_sessions' = [chat_sessions EXCEPT ![sessionId].session_name = trim(name)]
             /\ last' = [op |-> "rename", userId |-> userId, sessionId |-> sessionId,
                         status |-> 200, error |-> <<>>]
  /\ UNCHANGED <<quiz_sessions, users, inflight, turns, clients>>

\* socket event chat:join: the socket joins the room of a session of its user
JoinSession(userId, sessionId, get) ==
  /\ last' =
       IF get = "throw"
       THEN [op |-> "join", userId |-> userId, sessionId |-> sessionId, joined |-> FALSE,
             error |-> <<"Failed to join chat session">>]
       ELSE IF get = "ok" /\ sessionId \in 1..Len(chat_sessions)
               /\ chat_sessions[sessionId].user_id = userId
       THEN [op |-> "join", userId |-> userId, sessionId |-> sessionId, joined |-> TRUE,
             error |-> <<>>]
       ELSE [op |-> "join", userId |-> userId, sessionId |-> sessionId, joined |-> FALSE,
             error |-> <<"Access denied to chat session">>]
  /\ UNCHANGED <<chat_sessions, quiz_sessions, users, inflight, turns, clients>>

\* the text of a mode tag
TagText(tag) ==
  CASE tag = "code-feedback" -> <<"c","o","d","e","-","f","e","e","d","b","a","c","k">>
    [] tag = "concept-explainer" ->
         <<"c","o","n","c","e","p","t","-","e","x","p","l","a","i","n","e","r">>
    [] tag = "quiz-generator" -> <<"q","u","i","z","-","g","e","n","e","r","a","t","o","r">>
    [] tag = "mistake-analyzer" ->
         <<"m","i","s","t","a","k","e","-","a","n","a","l","y","z","e","r">>

\* a mutant of getAvailableNodes: the tag of the router is a fifth node
getAvailableNodes_WithRouter ==
  [i \in 1..Len(ModeTags) |-> TagText(ModeTags[i])] \o << <<"r","o","u","t","e","r">> >>

\* langGraphManager.getAvailableNodes()
getAvailableNodes == [i \in 1..Len(ModeTags) |-> TagText(ModeTags[i])]

\* availableNodes.includes(nodeType)
IsAvailableNode(nodeType) ==
  IsSome(nodeType) /\ \E i \in 1..Len(getAvailableNodes) : getAvailableNodes[i] = nodeType[1]

\* availableNodes.join(', ')
RECURSIVE JoinNodes(_)
JoinNodes(nodes) ==
  IF nodes = <<>> THEN <<>>
  ELSE IF Len(nodes) = 1 THEN nodes[1]
  ELSE nodes[1] \o <<", ">> \o JoinNodes(Tail(nodes))

\* the error of an invalid node type: Invalid node type. Available: <tags>
InvalidNodeError == <<"Invalid node type. Available: ">> \o JoinNodes(getAvailableNodes)

\* a mutant of switchMessage: the input always names the requested node
switchMessage_Forced(message, nodeType) ==
  <<"S","w","i","t","c","h"," ","t","o"," ">> \o nodeType[1] \o <<" ","m","o","d","e">>

\* a mutant of switchMessage: the default input does not name the node
switchMessage_Unnamed(message, nodeType) ==
  IF Truthy(message) THEN message[1]
  ELSE <<"S","w","i","t","c","h"," ","m","o","d","e">>

\* message || "Switch to <nodeType> mode"
switchMessage(message, nodeType) ==
  IF Truthy(message) THEN message[1]
  ELSE <<"S","w","i","t","c","h"," ","t","o"," ">> \o nodeType[1] \o <<" ","m","o","d","e">>

\* a switch request that was turned down: the error goes to the client, the
\* stores and the requests in flight stay as they are
SwitchRejected(a, userId, sessionId, nodeType, get, status, text) ==
  /\ last' = [op |-> "switch-rejected", adapter |-> a, userId |-> userId,
              sessionId |-> sessionId, nodeType |-> nodeType, get |-> get,
              status |-> status, error |-> text]
  /\ UNCHANGED <<chat_sessions, inflight>>

\* a switch request that passed the checks: executeGraph is about to be called
\* with { ...session.context, requested_node: nodeType }
SwitchAccepted(a, userId, sessionId, nodeType, message) ==
  /\ inflight' = [inflight EXCEPT ![a] =
       [pc |-> "switching", userId |-> userId, sessionId |-> sessionId[1],
        nodeType |-> nodeType[1], supplied |-> message,
        message |-> switchMessage(message, nodeType),
        context |-> [chat_sessions[sessionId[1]].context EXCEPT
                       !.requested_node = Some(nodeType[1])]]]
  /\ last' = [op |-> "switch-accepted", adapter |-> a]
  /\ UNCHANGED chat_sessions

\* POST /api/chat/switch-node up to the call of executeGraph.  sessionId,
\* nodeType and message are optional fields of the body.
HttpSwitchNode(userId, sessionId, nodeType, message, get) ==
  /\ turns < MaxTurns
  /\ inflight["http"].pc = "idle"
  /\ turns' = turns + 1
  /\ UNCHANGED <<quiz_sessions, users, clients>>
  /\ LET rejected(status, text) ==
           SwitchRejected("http", userId, sessionId, nodeType, get, status, text)
     IN IF ~IsSome(sessionId) THEN rejected(400, <<"Session ID is required">>)
        ELSE IF ~Truthy(nodeType) THEN rejected(400, <<"Node type is required">>)
        ELSE IF get = "throw" THEN rejected(500, <<"Internal error">>)
        ELSE IF get = "error" \/ sessionId[1] \notin 1..Len(chat_sessions)
        THEN rejected(400, <<"Chat session not found">>)
        ELSE IF chat_sessions[sessionId[1]].user_id # userId
        THEN rejected(400, <<"Access denied to this chat session">>)
        ELSE IF ~IsAvailableNode(nodeType) THEN rejected(400, InvalidNodeError)
        ELSE SwitchAccepted("http", userId, sessionId, nodeType, message)

\* socket event chat:switch_node up to the call of executeGraph
SocketSwitchNode(userId, sessionId, nodeType, message, get) ==
  /\ turns < MaxTurns
  /\ inflight["socket"].pc = "idle"
  /\ turns' = turns + 1
  /\ UNCHANGED <<quiz_sessions, users, clients>>
  /\ LET rejected(text) ==
           SwitchRejected("socket", userId, sessionId, nodeType, get, 0, text)
     IN IF get = "throw" THEN rejected(<<"Failed to switch nodes">>)
        ELSE IF get = "error" \/ ~IsSome(sessionId)
                \/ sessionId[1] \notin 1..Len(chat_sessions)
                \/ chat_sessions[sessionId[1]].user_id # userId
        THEN rejected(<<"Access denied to chat session">>)
        ELSE IF ~IsAvailableNode(nodeType) THEN rejected(InvalidNodeError)
        ELSE SwitchAccepted("socket", userId, sessionId, nodeType, message)

\* the rest of a switch on either adapter: executeGraph with its persistence,
\* and the reply
SwitchFinish(a, getUser, completion, update) ==
  /\ inflight[a].pc = "switching"
  /\ LET req == inflight[a]
         env == [userThrows |-> getUser = "throw",
                 user |-> IF getUser = "ok" THEN Some(users[req.userId]) ELSE None,
                 completion |-> completion, update |-> update]
     IN \E out \in {executeGraph(req.userId, req.sessionId, req.message, Some(req.context), env)} :
          /\ chat_sessions' = AfterUpdate(chat_sessions, out, update)
          /\ last' = [op |-> "switch", adapter |-> a, userId |-> req.userId,
                      sessionId |-> req.sessionId, nodeType |-> req.nodeType,
                      userInput |-> req.message,
                      persisted |-> Persisted(chat_sessions, out, update),
                      response |-> out.result[1].response,
                      currentNode |-> out.result[1].current_node,
                      calls |-> out.calls]
  /\ inflight' = [inflight EXCEPT ![a] = Idle]
  /\ UNCHANGED <<quiz_sessions, users, turns, clients>>

\* ------------------------------------------------------------------------
\* Session specification: two users send messages to, read, rename and join
\* chat sessions, their own and each other's
\* ------------------------------------------------------------------------
SessionMessage == <<"R","e","v","i","e","w"," ","c","o","d","e">>

SessionNames == { <<"N","e","w">>, <<" ">> }

\* the node types of switch requests: none, '', the four mode tags, the tag of
\* the router and a mode tag in another case
NodeTypes ==
  { None, Some(<<>>), Some(TagText("quiz-generator")), Some(TagText("concept-explainer")),
    Some(TagText("code-feedback")), Some(TagText("mistake-analyzer")),
    Some(<<"r","o","u","t","e","r">>), Some(toUpperCase(TagText("quiz-generator"))) }

SessionIds == {None} \cup {Some(i) : i \in 1..(Len(chat_sessions) + 1)}

OkCompletion == [throws |-> FALSE, content |-> Some(<<"a text written by the model">>)]

\* the last operation was a get, a rename or a join: these requests are sent
\* one at a time, while no turn is in flight
IsSessionRequest == last.op \in {"get-session", "rename", "join"}

NoneInFlight == \A a \in Adapters : inflight[a].pc = "idle"

InitSessions ==
  /\ InitStores
  /\ last = [op |-> "init"]

NextSessions ==
  \/ \E a \in Adapters, u \in Requesters,
        sid \in {None} \cup {Some(i) : i \in 1..Len(chat_sessions)} :
       MessageBegin(a, u, sid, SessionMessage, "ok", "ok")
  \/ \E a \in Adapters, update \in {"ok", "error"} :
       MessageFinish(a, "ok", OkCompletion, update)
  \/ /\ ~IsSessionRequest /\ NoneInFlight
     /\ \E u \in Requesters, sid \in 1..(Len(chat_sessions) + 1), get \in DbOutcomes :
          GetSession(u, sid, get)
  \/ /\ ~IsSessionRequest /\ NoneInFlight
     /\ \E u \in Requesters, sid \in 1..(Len(chat_sessions) + 1), name \in SessionNames,
           get \in DbOutcomes :
          \E update \in (IF get = "ok" THEN DbOutcomes ELSE {"ok"}) :
            RenameSession(u, sid, name, get, update)
  \/ /\ ~IsSessionRequest /\ NoneInFlight
     /\ \E u \in Requesters, sid \in 1..(Len(chat_sessions) + 1), get \in DbOutcomes :
          JoinSession(u, sid, get)

SpecSessions == InitSessions /\ [][NextSessions]_vars

\* ------------------------------------------------------------------------
\* Switch specification: the first user opens a session with a message; both
\* users then send switch-node requests on both adapters
\* ------------------------------------------------------------------------
NextSwitch ==
  \/ /\ chat_sessions = <<>>
     /\ MessageBegin("http", "u1", None, SessionMessage, "ok", "ok")
  \/ MessageFinish("http", "ok", OkCompletion, "ok")
  \/ \E u \in Requesters, sid \in SessionIds, nodeType \in NodeTypes,
        message \in {None, Some(SessionMessage)}, get \in DbOutcomes :
       HttpSwitchNode(u, sid, nodeType, message, get)
  \/ \E u \in Requesters, sid \in SessionIds, nodeType \in NodeTypes,
        message \in {None, Some(SessionMessage)}, get \in DbOutcomes :
       SocketSwitchNode(u, sid, nodeType, message, get)
  \/ \E a \in Adapters, completion \in ChatCompletions, update \in DbOutcomes :
       SwitchFinish(a, "ok", completion, update)

SpecSwitch == InitSessions /\ [][NextSwitch]_vars

\* C13: every operation that reads or updates a chat session for a requester
\* (a turn with a session id, switch-node, get, rename, chat:join) proceeds
\* only when the session's user_id is the requester's id: no requester has the
\* context of another user's session loaded into a turn, or overwrites it.
C13_OwnerOnly ==
  [][
      /\ \A a \in Adapters :
          (inflight[a].pc = "idle" /\ inflight'[a].pc \in {"loaded", "switching"}) =>
            chat_sessions'[inflight'[a].sessionId].user_id = inflight'[a].userId
      /\ \A i \in 1..Len(chat_sessions) :
           chat_sessions'[i] # chat_sessions[i] =>
             \/ \E a \in Adapters : /\ inflight[a].pc \in {"loaded", "switching"}
                                    /\ inflight'[a].pc = "idle"
                                    /\ inflight[a].userId = chat_sessions[i].user_id
             \/ last'.op = "rename" /\ last'.userId = chat_sessions[i].user_id
      /\ (last'.op = "get-session" /\ last'.status = 200) =>
           last'.session[1].user_id = last'.userId
      /\ (last'.op = "join" /\ last'.joined) =>
           chat_sessions[last'.sessionId].user_id = last'.userId]_vars

\* ------------------------------------------------------------------------
\* Quiz session routes: get, PATCH and delete
\* ------------------------------------------------------------------------
\* the place of a deleted row: no requester owns it and no id finds it
DeletedRow ==
  [user_id |-> "", questions |-> <<>>, answers |-> <<>>, score |-> 0,
   total_questions |-> 0, completed |-> FALSE]

\* a row with that id is stored
QuizExists(sessionId) ==
  sessionId \in 1..Len(quiz_sessions) /\ quiz_sessions[sessionId] # DeletedRow

\* sessions.find(s => s.id === sessionId) over db.getUserQuizSessions(userId)
QuizOwnedBy(userId, sessionId) ==
  QuizExists(sessionId) /\ quiz_sessions[sessionId].user_id = userId

\* { ...updates } over a row: the fields the body holds replace the row's
ApplyUpdates(row, updates) ==
  [row EXCEPT !.completed = IF IsSome(updates.completed) THEN updates.completed[1] ELSE @,
              !.score = IF IsSome(updates.score) THEN updates.score[1] ELSE @]

\* PATCH /api/quiz/sessions/:sessionId: the body goes to db.updateQuizSession
\* as it is; the requester is not looked at.  update is the outcome of the
\* database call; a call that matches no row gives null.
PatchQuizSession(userId, sessionId, updates, update) ==
  /\ quiz_sessions' =
       IF update = "ok" /\ QuizExists(sessionId)
       THEN [quiz_sessions EXCEPT ![sessionId] = ApplyUpdates(@, updates)]
       ELSE quiz_sessions
  /\ last' = [op |-> "quiz-patch", userId |-> userId, sessionId |-> sessionId,
              status |-> IF update = "throw" THEN 500 ELSE 200,
              updated |-> update = "ok" /\ QuizExists(sessionId)]
  /\ UNCHANGED <<chat_sessions, users, inflight, turns, clients>>

\* GET /api/quiz/sessions/:sessionId
GetQuizSession(userId, sessionId, list) ==
  /\ last' = [op |-> "quiz-get", userId |-> userId, sessionId |-> sessionId,
              status |-> IF list = "throw" THEN 500
                         ELSE IF list = "error" \/ ~QuizOwnedBy(userId, sessionId) THEN 404
                         ELSE 200]
  /\ UNCHANGED <<chat_sessions, quiz_sessions, users, inflight, turns, clients>>

\* DELETE /api/quiz/sessions/:sessionId.  delete is the outcome of
\* db.deleteQuizSession: the row is removed, or the call reports a failure.
DeleteQuizSession(userId, sessionId, list, delete) ==
  /\ IF list = "throw"
     THEN /\ last' = [op |-> "quiz-delete", userId |-> userId, sessionId |-> sessionId,
                      status |-> 500]
          /\ UNCHANGED quiz_sessions
     ELSE IF list = "error" \/ ~QuizOwnedBy(userId, sessionId)
     THEN /\ last' = [op |-> "quiz-delete", userId |-> userId, sessionId |-> sessionId,
                      status |-> 404]
          /\ UNCHANGED quiz_sessions
     ELSE /\ quiz_sessions' = IF delete = "ok"
                              THEN [quiz_sessions EXCEPT ![sessionId] = DeletedRow]
                              ELSE quiz_sessions
          /\ last' = [op |-> "quiz-delete", userId |-> userId, sessionId |-> sessionId,
                      status |-> IF delete = "ok" THEN 200 ELSE 500]
  /\ UNCHANGED <<chat_sessions, users, inflight, turns, clients>>

\* ------------------------------------------------------------------------
\* Quiz operations specification: the first user creates a quiz session; two
\* users then get, update, submit to and delete quiz sessions by id
\* ------------------------------------------------------------------------
\* the bodies of the update requests
QuizUpdates ==
  { [completed |-> Some(FALSE), score |-> None],
    [completed |-> Some(TRUE), score |-> Some(9)] }

OpsCompletion == [throws |-> FALSE, content |-> Some(ArrayText(<<"{map}">>))]

\* the answers of the submissions: a right one, a wrong one
OpsAnswers(questions) ==
  { <<[question_id |-> questions[1].id, user_answer |-> ua]>> :
      ua \in {Some(<<"b">>), Some(<<"a">>)} }

NextQuizOps ==
  \/ /\ quiz_sessions = <<>>   \* one quiz session is created
     /\ CreateQuizSession("u1", Some(topic_js), 5, None, "ok", OpsCompletion, "ok")
     /\ UNCHANGED clients
  \/ \E u \in Requesters, sid \in 1..(Len(quiz_sessions) + 1), updates \in QuizUpdates,
        update \in DbOutcomes :
       PatchQuizSession(u, sid, updates, update)
  \/ /\ last.op # "quiz-get"
     /\ \E u \in Requesters, sid \in 1..(Len(quiz_sessions) + 1), list \in DbOutcomes :
          GetQuizSession(u, sid, list)
  \/ \E u \in Requesters, sid \in 1..(Len(quiz_sessions) + 1), list \in DbOutcomes :
       \E update \in (IF list = "ok" THEN DbOutcomes ELSE {"ok"}) :
         \E answers \in (IF QuizOwnedBy(u, sid) /\ quiz_sessions[sid].questions # <<>>
                         THEN OpsAnswers(quiz_sessions[sid].questions)
                         ELSE { <<>> }) :
           /\ SubmitAnswers(u, sid, answers, list, update)
           /\ UNCHANGED clients
  \/ \E u \in Requesters, sid \in 1..(Len(quiz_sessions) + 1), list \in DbOutcomes :
       \E delete \in (IF list = "ok" THEN {"ok", "error"} ELSE {"ok"}) :
         DeleteQuizSession(u, sid, list, delete)

SpecQuizOps == InitQuiz /\ [][NextQuizOps]_vars

\* the last step was a get, an update, a submission or a delete
IsQuizRequest(op) == op \in {"quiz-get", "quiz-patch", "submit", "quiz-delete"}

\* C14: every get, update (PATCH), submit-answers and delete on a quiz session
\* whose id does not exist or whose user_id differs from the requester's id
\* returns a not-found or denial error (or the 500 of a failed database call)
\* and leaves the stored quiz sessions unchanged.
C14_ForeignQuizRefused ==
  [][
     (/\ IsQuizRequest(last'.op)
      /\ ~QuizOwnedBy(last'.userId, last'.sessionId))
       => (/\ last'.status \in {403, 404, 500}
           /\ quiz_sessions' = quiz_sessions)
  ]_vars

\* C15: a quiz session whose completed flag is true never later has
\* completed = false, and completed changes from false to true only through
\* an answer submission.
C15_CompletedOneWay ==
  [][
     \A i \in 1..Len(quiz_sessions) :
       (quiz_sessions[i] # DeletedRow /\ quiz_sessions'[i] # DeletedRow) =>
         /\ quiz_sessions[i].completed => quiz_sessions'[i].completed
         /\ (~quiz_sessions[i].completed /\ quiz_sessions'[i].completed)
              => (last'.op = "submit" /\ last'.status = 200 /\ last'.sessionId = i)
  ]_vars

\* a is an initial part of b
IsPrefix(a, b) == Len(a) <= Len(b) /\ SubSeq(b, 1, Len(a)) = a

\* C16: the conversation history of a chat session is append-only: under any
\* interleaving of turns on the session and any failure of the session read or
\* write, each persisted conversation_history extends the history persisted
\* before it (no entry is removed, reordered or modified).
C16_HistoryAppendOnly ==
  [][
     \A i \in 1..Len(chat_sessions) :
       IsPrefix(chat_sessions[i].conversation_history,
                chat_sessions'[i].conversation_history)
  ]_vars

\* what a loaded context holds as history: currentContext?.conversation_history || []
LoadedHistory(context) ==
  IF Truthy(context.conversation_history) THEN context.conversation_history[1] ELSE <<>>

\* C17: when two turns on the same session both load the session context
\* before either persists, the last write wins: a turn that persists leaves
\* as stored history the history it loaded followed by its own entry, and as
\* stored context its own context, whatever another turn wrote since the load;
\* a turn that does not persist leaves the session as it is.
C17_LastWriteWins ==
  [][
     \A a \in Adapters :
       (inflight[a].pc = "loaded" /\ inflight'[a].pc = "idle") =>
         LET req == inflight[a]
             row == chat_sessions'[req.sessionId]
         IN IF last'.persisted
            THEN /\ row.conversation_history =
                      Append(LoadedHistory(req.context),
                             [user_input |-> last'.userInput,
                              response |-> last'.response[1],
                              node |-> last'.current_node[1]])
                 /\ row.context.conversation_history = Some(row.conversation_history)
                 /\ row.context.node_output = Some(last'.response[1])
                 /\ row.current_node = last'.current_node[1]
            ELSE chat_sessions' = chat_sessions
  ]_vars

\* a turn has persisted over a history that another turn wrote after this
\* turn had loaded the session
C17_Witness ==
  /\ last.op = "turn" /\ last.persisted /\ last.stale
  /\ Len(chat_sessions[last.sessionId].conversation_history) = 1

\* ------------------------------------------------------------------------
\* Adapter specification: one message request, with the outcomes of the calls
\* its handler makes, is handled by POST /message or by chat:message from the
\* same store
\* ------------------------------------------------------------------------
\* what a turn of the first user leaves in the store: the session after the
\* message 'Review code' was answered by the code-feedback mode
StoreAfterTurn ==
  LET entry == [user_input |-> SessionMessage, node |-> "code-feedback",
                response |-> OkCompletion.content[1]]
  IN << [NewChatSession("u1") EXCEPT
           !.current_node = "code-feedback",
           !.conversation_history = <<entry>>,
           !.available_transitions = ModeTags,
           !.context = [EmptyContext EXCEPT
                          !.user_input = Some(SessionMessage),
                          !.conversation_history = Some(<<entry>>),
                          !.available_transitions = Some(<<>>),
                          !.node_output = Some(OkCompletion.content[1])]] >>

AdapterStores == { <<>>, <<NewChatSession("u1")>>, StoreAfterTurn }

InitAdapters ==
  /\ clients = [c \in ClientIds |->
                  [userId |-> "u1", preferences |-> RegisteredPreferences,
                   upgradeQuiz |-> None, pc |-> "idle"]]
  /\ quiz_sessions = <<>>
  /\ users = [u \in Requesters |-> [preferences |-> Some(RegisteredPreferences)]]
  /\ inflight = [a \in Adapters |-> Idle]
  /\ turns = 0
  /\ \E store \in AdapterStores, u \in UserIds, m \in ChatMessages,
        get \in DbOutcomes, getUser \in DbOutcomes,
        completion \in ChatCompletions, update \in DbOutcomes :
       \E sid \in {None} \cup {Some(i) : i \in 1..Len(store)} :
         \E create \in (IF IsSome(sid) THEN {"ok"} ELSE DbOutcomes) :
           /\ chat_sessions = store
           /\ last = [op |-> "request", userId |-> u, sessionId |-> sid, message |-> m,
                      create |-> create, get |-> get, getUser |-> getUser,
                      completion |-> completion, update |-> update]

\* the four arguments of a call of executeGraph
CallArguments(call) ==
  IF IsSome(call)
  THEN Some([userId |-> call[1].userId, sessionId |-> call[1].sessionId,
             message |-> call[1].message, context |-> call[1].context])
  ELSE None

\* executeGraph as a handler calls it, under the outcomes of the request
HandlerCall(req, call) ==
  executeGraph(call.userId, call.sessionId, call.message, Some(call.context),
               [userThrows |-> req.getUser = "throw",
                user |-> IF req.getUser = "ok" THEN Some(users[call.userId]) ELSE None,
                completion |-> req.completion, update |-> req.update])

\* the one element of a set of one element
Only(S) == CHOOSE x \in S : TRUE

\* POST /message as a whole: the call it makes, the session store it leaves
\* and its reply
HttpOutcome(req) ==
  Only({ IF IsSome(r.error)
         THEN [call |-> None, sessions |-> r.sessions, calls |-> NoCalls,
               reply |-> [success |-> FALSE, data |-> None, error |-> r.text]]
         ELSE Only({ [call |-> CallArguments(r.call),
                      sessions |-> AfterUpdate(r.sessions, out, req.update),
                      calls |-> out.calls,
                      reply |-> HttpReply(out, r.call[1].sessionId)] :
                     out \in {HandlerCall(req, r.call[1])} }) :
         r \in {HttpMessage(chat_sessions, req.userId, req.sessionId, req.message,
                            req.create, req.get)} })

\* chat:message as a whole
SocketOutcome(req) ==
  Only({ IF IsSome(r.error)
         THEN [call |-> None, sessions |-> r.sessions, calls |-> NoCalls,
               emitted |-> r.emitted,
               reply |-> [event |-> "error", data |-> None, error |-> r.text]]
         ELSE Only({ [call |-> CallArguments(r.call),
                      sessions |-> AfterUpdate(r.sessions, out, req.update),
                      calls |-> out.calls,
                      emitted |-> r.emitted \o <<"chat:ai_thinking false">>
                                    \o (IF out.exception THEN <<"error">>
                                        ELSE <<"chat:response">>),
                      reply |-> SocketReply(out, r.call[1].sessionId, req.sessionId)] :
                     out \in {HandlerCall(req, r.call[1])} }) :
         r \in {SocketMessage(chat_sessions, req.userId, req.sessionId, req.message,
                              req.create, req.get)} })

Handled(a, outcome) ==
  /\ chat_sessions' = outcome.sessions
  /\ last' = [op |-> "handled", adapter |-> a, request |-> last, outcome |-> outcome]
  /\ UNCHANGED <<quiz_sessions, users, inflight, turns, clients>>

HttpHandle ==
  /\ last.op = "request"
  /\ \E outcome \in {HttpOutcome(last)} : Handled("http", outcome)

SocketHandle ==
  /\ last.op = "request"
  /\ \E outcome \in {SocketOutcome(last)} : Handled("socket", outcome)

NextAdapters ==
  \/ HttpHandle
  \/ SocketHandle

SpecAdapters == InitAdapters /\ [][NextAdapters]_vars

\* what a reply delivers of the result of executeGraph
Delivered(reply) ==
  IF IsSome(reply.data)
  THEN Some([response |-> reply.data[1].response,
             sessionId |-> reply.data[1].sessionId,
             currentNode |-> reply.data[1].currentNode,
             availableTransitions |-> reply.data[1].availableTransitions,
             metadata |-> reply.data[1].metadata])
  ELSE None

\* C18: for the same user, message, optional session id and store state,
\* POST /message and chat:message call executeGraph with the same four
\* arguments (user id, session id - newly created when absent -, trimmed
\* message, loaded session context), cause the same session-store effects and
\* deliver the same response, sessionId, currentNode, availableTransitions and
\* metadata; the context they hand on is the stored one, unmerged.
C18_AdaptersAgree ==
  last.op = "request" =>
    \A h \in {HttpOutcome(last)}, s \in {SocketOutcome(last)} :
       /\ h.call = s.call
       /\ h.sessions = s.sessions
       /\ Delivered(h.reply) = Delivered(s.reply)
       /\ IsSome(h.call) =>
            /\ h.call[1].userId = last.userId
            /\ h.call[1].message = trim(last.message)
            /\ IF IsSome(last.sessionId)
               THEN h.call[1].sessionId = last.sessionId[1]
               ELSE /\ h.call[1].sessionId = Len(chat_sessions) + 1
                    /\ h.sessions[h.call[1].sessionId].user_id = last.userId
            /\ h.call[1].context =
                 IF last.get = "ok" /\ IsSome(last.sessionId)
                 THEN chat_sessions[last.sessionId[1]].context
                 ELSE EmptyContext
            /\ IsSome(Delivered(h.reply))

\* chat:message has handled a message with surrounding blanks and no session
\* id: a session was created and a response delivered
C18_Witness ==
  /\ last.op = "handled" /\ last.adapter = "socket"
  /\ ~IsSome(last.request.sessionId)
  /\ last.request.message # trim(last.request.message)
  /\ IsSome(last.outcome.call)
  /\ IsSome(Delivered(last.outcome.reply))
  /\ Len(chat_sessions) = 2

\* the text names each of the four mode tags
ListsValidTags(text) == \A i \in 1..Len(ModeTags) : includes(text, TagText(ModeTags[i]))

\* the nodeType of a request is one of the four mode tags
IsModeTag(nodeType) ==
  IsSome(nodeType) /\ \E i \in 1..Len(ModeTags) : nodeType[1] = TagText(ModeTags[i])

\* the step is a switch-node request, accepted or rejected
IsSwitchRequest(op) == op \in {"switch-rejected", "switch-accepted"}

\* the nodeType of the switch-node request of the step
RequestedNodeType(l, fl) ==
  IF l.op = "switch-rejected" THEN l.nodeType ELSE Some(fl[l.adapter].nodeType)

\* C19 as stated: a switch-node request whose nodeType is not one of the four
\* mode tags is rejected with an error listing the valid tags, on both
\* adapters; the orchestrator is not invoked and the session is left unchanged.
C19_InvalidNodeListed ==
  [][
     (IsSwitchRequest(last'.op) /\ ~IsModeTag(RequestedNodeType(last', inflight')))
       => /\ last'.op = "switch-rejected"
          /\ ListsValidTags(last'.error)
          /\ inflight' = inflight
          /\ chat_sessions' = chat_sessions
  ]_vars

\* C19, amended: a switch-node request whose nodeType is not one of the four
\* mode tags is rejected on both adapters, the orchestrator is not invoked and
\* the session is left unchanged; the error lists the valid tags when the
\* session was read, exists and belongs to the requester and, on POST
\* /switch-node, the nodeType is not missing or empty.
C19_InvalidNodeRejected ==
  [][
     (IsSwitchRequest(last'.op) /\ ~IsModeTag(RequestedNodeType(last', inflight')))
       => /\ last'.op = "switch-rejected"
          /\ inflight' = inflight
          /\ chat_sessions' = chat_sessions
          /\ (/\ last'.get = "ok"
              /\ IsSome(last'.sessionId)
              /\ last'.sessionId[1] \in 1..Len(chat_sessions)
              /\ chat_sessions[last'.sessionId[1]].user_id = last'.userId
              /\ last'.adapter = "http" => Truthy(last'.nodeType))
               => /\ ListsValidTags(last'.error)
                  /\ last'.error = <<"Invalid node type. Available: ">>
                       \o TagText("code-feedback") \o <<", ">>
                       \o TagText("concept-explainer") \o <<", ">>
                       \o TagText("quiz-generator") \o <<", ">>
                       \o TagText("mistake-analyzer")
  ]_vars

\* a request for the node 'router' on the requester's own session was rejected
\* on the socket with the list of the valid tags
C19_Witness ==
  /\ last.op = "switch-rejected" /\ last.adapter = "socket"
  /\ last.nodeType = Some(<<"r","o","u","t","e","r">>)
  /\ last.userId = "u1" /\ last.sessionId = Some(1) /\ last.get = "ok"
  /\ chat_sessions # <<>>
  /\ ListsValidTags(last.error)

\* the input of a switch: the supplied message, or 'Switch to <nodeType> mode'
SynthesizedInput(supplied, nodeType) ==
  IF Truthy(supplied) THEN supplied[1]
  ELSE <<"S","w","i","t","c","h"," ","t","o"," ">> \o nodeType \o <<" ","m","o","d","e">>

\* C20: after an accepted switch-node request the resulting current_node is
\* the mode the router derives from the synthesized input (the supplied
\* message, or 'Switch to <nodeType> mode' when none is supplied), whatever
\* the requested nodeType; the requested nodeType is only stored as
\* requested_node in the context that the turn persists.
C20_RouterDecidesAfterSwitch ==
  [][
     \A a \in Adapters :
       (inflight[a].pc = "switching" /\ inflight'[a].pc = "idle") =>
         LET req == inflight[a]
             input == SynthesizedInput(req.supplied, req.nodeType)
             row == chat_sessions'[req.sessionId]
         IN /\ last'.userInput = input
            /\ last'.currentNode = determineNode(input)
            /\ IF last'.persisted
               THEN /\ row.current_node = determineNode(input)
                    /\ row.context.requested_node = Some(req.nodeType)
                    /\ row.user_id = chat_sessions[req.sessionId].user_id
               ELSE chat_sessions' = chat_sessions
  ]_vars

\* a switch to quiz-generator with the message 'Review code' ended in
\* code-feedback, and quiz-generator is stored as requested_node
C20_Witness ==
  /\ last.op = "switch" /\ last.persisted
  /\ last.nodeType = TagText("quiz-generator")
  /\ last.currentNode = "code-feedback"
  /\ chat_sessions[last.sessionId].current_node = "code-feedback"
  /\ chat_sessions[last.sessionId].context.requested_node = Some(TagText("quiz-generator"))

\* every chat:ai_thinking true of the events is followed by a
\* chat:ai_thinking false
ThinkingEnded(events) ==
  \A i \in 1..Len(events) :
    events[i] = "chat:ai_thinking true" =>
      \E k \in (i + 1)..Len(events) : events[k] = "chat:ai_thinking false"

\* C21: on the persistent channel every chat:ai_thinking true emitted while a
\* chat:message is handled is followed by a chat:ai_thinking false on the same
\* socket, on every path of the handler: when the handler has ended, no
\* thinking indicator is left on.
C21_ThinkingEnds ==
  (last.op = "handled" /\ last.adapter = "socket") => ThinkingEnded(last.outcome.emitted)

\* C22: a second answer submission to a quiz session that is already
\* completed still returns a score result (unless a database call of the
\* request fails), and the session's stored total_questions keeps the value
\* fixed when the session was created.
C22_ResubmissionAnswered ==
  [][
     (/\ last'.op = "submit"
      /\ QuizOwnedBy(last'.userId, last'.sessionId)
      /\ quiz_sessions[last'.sessionId].completed)
       => /\ (last'.list = "ok" /\ last'.update # "throw") =>
               /\ last'.status = 200
               /\ last'.score \in 0..Len(last'.answers)
               /\ last'.total_questions = Len(quiz_sessions[last'.sessionId].questions)
          /\ quiz_sessions'[last'.sessionId].total_questions
               = quiz_sessions[last'.sessionId].total_questions
          /\ quiz_sessions'[last'.sessionId].total_questions = 5
  ]_vars

\* a submission to a completed session was answered with a score and stored
C22_Witness ==
  /\ last.op = "submit" /\ last.status = 200 /\ last.resubmission
  /\ last.update = "ok"
  /\ Len(last.answers) = 1
  /\ quiz_sessions[last.sessionId].answers # <<>>
  /\ quiz_sessions[last.sessionId].total_questions = 5

\* C23: in every reachable state, a quiz session with completed = true has
\* as many stored answers as it has questions.
C23_CompletedFullyAnswered ==
  \A sid \in 1..Len(quiz_sessions) :
    quiz_sessions[sid].completed =>
      Len(quiz_sessions[sid].answers) = Len(quiz_sessions[sid].questions)

\* C30: for every answer submission, including one that repeats a
\* question_id or holds more answers than the quiz has questions, the
\* returned and stored score satisfies 0 <= score <= number of questions of
\* the quiz session.
C30_ScoreWithinQuestions ==
  /\ (last.op = "submit" /\ last.status = 200) =>
        /\ 0 <= last.score
        /\ last.score <= Len(quiz_sessions[last.sessionId].questions)
  /\ \A sid \in 1..Len(quiz_sessions) :
        /\ 0 <= quiz_sessions[sid].score
        /\ quiz_sessions[sid].score <= Len(quiz_sessions[sid].questions)

\* the four mode tags as a set
ModeTagSet == { ModeTags[i] : i \in 1..Len(ModeTags) }

\* C24: the stored current_node of every chat session is one of the four mode
\* tags or the sentinel router: router from creation until the first
\* persisted turn, a mode tag afterwards.
C24_CurrentNodeWellFormed ==
  [][
     /\ \A sid \in 1..Len(chat_sessions) :
          chat_sessions[sid].current_node \in ModeTagSet \cup {"router"}
     /\ \A sid \in 1..Len(chat_sessions') :
          /\ chat_sessions'[sid].current_node \in ModeTagSet \cup {"router"}
          \* a session is created with router
          /\ sid > Len(chat_sessions) => chat_sessions'[sid].current_node = "router"
          /\ sid <= Len(chat_sessions) =>
               IF last'.op = "turn" /\ last'.persisted /\ last'.sessionId = sid
               \* a persisted turn stores a mode tag
               THEN chat_sessions'[sid].current_node \in ModeTagSet
               \* nothing else writes the column
               ELSE chat_sessions'[sid].current_node = chat_sessions[sid].current_node
  ]_vars

\* one session has a persisted turn and holds the tag of that turn, another
\* has none and holds router
C24_Witness ==
  /\ last.op = "turn" /\ last.persisted
  /\ chat_sessions[last.sessionId].current_node \in ModeTagSet
  /\ Some(chat_sessions[last.sessionId].current_node) = last.current_node
  /\ \E sid \in 1..Len(chat_sessions) :
       /\ chat_sessions[sid].current_node = "router"
       /\ chat_sessions[sid].conversation_history = <<>>

\* ========================================================================
\* Profile updates next to the upgrade flow
\* ========================================================================
\* the preferences objects a profile update is sent with: a tier, a value
\* that is not a tier, the empty string, and a body without difficulty
ProfileBodies ==
  { [difficulty |-> d, preferred_languages |-> None, learning_style |-> None] :
      d \in {Some(s_advanced), Some(<<"e","x","p","e","r","t">>), Some(<<>>), None} }

\* a PUT /api/auth/profile sent outside the upgrade flow
UpdateProfile(userId, preferences, getUser, update) ==
  /\ LET reply == PutProfile(userId, preferences, getUser, update)
     IN /\ users' = reply.users
        /\ last' = [op |-> "profile", userId |-> userId, status |-> reply.status,
                    sent |-> preferences.difficulty]
  /\ UNCHANGED <<chat_sessions, quiz_sessions, inflight, turns, clients>>

NextProfile ==
  \/ NextUpgrade
  \/ \E u \in UserIds, body \in ProfileBodies, update \in {"ok", "error"} :
       UpdateProfile(u, body, "ok", update)

SpecProfile == InitUpgrade /\ [][NextProfile]_vars

\* C25: after any sequence of registration, profile update and upgrade-quiz
\* operations, each user's stored preferences.difficulty is one of beginner,
\* intermediate, advanced.
C25_DifficultyIsTier ==
  \A u \in DOMAIN users :
    IsSome(users[u].preferences) => TierRank(StoredDifficulty(u)) \in 1..3

\* C26: every result returned by executeGraph, a normal turn, an intercepted
\* quiz follow-up (found or out of range) and the exception fallback, carries
\* available_transitions equal to exactly the four mode tags.
C26_TransitionsAreTheFourTags ==
  last.op = "ai-chat" =>
    /\ ~last.exception
    /\ last.available_transitions =
         Some(<<"code-feedback", "concept-explainer", "quiz-generator", "mistake-analyzer">>)

\* the fallback result of a turn that raised
C26_Witness ==
  /\ last.op = "ai-chat" /\ last.raised
  /\ last.current_node = Some("concept-explainer")
  /\ IsSome(last.available_transitions)
  /\ Len(last.available_transitions[1]) = 4

\* C29: an intercepted quiz follow-up turn leaves the session store
\* unchanged: it appends no history entry, writes no context and no
\* current_node, and returns the prior context as session_context unmodified.
C29_FollowUpLeavesNoTrace ==
  (last.op = "ai-chat" /\ last.withQuiz /\ QuestionReferenceTest(last.userInput)) =>
    /\ last.update = None
    /\ last.session_context =
         Some([EmptyContext EXCEPT
                 !.quizContext = Some([questions |-> Some(last.questions)])])

\* C28: for each of the four mode tags T, a switch-node request for T that
\* supplies no message (so the input is the default "Switch to T mode")
\* yields current_node = T.
C28_DefaultSwitchReachesTag ==
  [][
     \A a \in Adapters :
       (inflight[a].pc = "switching" /\ inflight'[a].pc = "idle"
        /\ ~Truthy(inflight[a].supplied)) =>
         \E T \in ModeTagSet :
           /\ TagText(T) = inflight[a].nodeType
           /\ last'.currentNode = T
           /\ last'.persisted => chat_sessions'[inflight[a].sessionId].current_node = T
  ]_vars

\* a switch to mistake-analyzer without a message was answered by that mode
C28_Witness ==
  /\ last.op = "switch" /\ last.persisted
  /\ last.nodeType = TagText("mistake-analyzer")
  /\ last.userInput = <<"S","w","i","t","c","h"," ","t","o"," ">>
                        \o TagText("mistake-analyzer") \o <<" ","m","o","d","e">>
  /\ last.currentNode = "mistake-analyzer"
  /\ chat_sessions[last.sessionId].current_node = "mistake-analyzer"

\* ========================================================================
\* Turns next to preference changes: one user sends messages over HTTP while
\* the profile route and the upgrade flow change the stored preferences
\* ========================================================================
NextPreferences ==
  \/ \E sid \in {None} \cup {Some(i) : i \in 1..Len(chat_sessions)} :
       MessageBegin("http", "u1", sid, SessionMessage, "ok", "ok")
  \/ \E update \in {"ok", "error"} : MessageFinish("http", "ok", OkCompletion, update)
  \/ /\ NoneInFlight
     /\ \E body \in {b \in ProfileBodies : b.difficulty = Some(s_advanced)} :
          UpdateProfile("u1", body, "ok", "ok")
  \/ NoneInFlight /\ handleStartUpgradeQuiz("tab1", "ok")
  \/ NoneInFlight /\ handleUpgradeQuizSubmit("tab1", PassingScore, "ok")
  \/ NoneInFlight /\ UpgradeLevel("tab1", "ok", "ok")

SpecPreferences == InitUpgrade /\ [][NextPreferences]_vars

\* C27: after a user's preferences change (difficulty promotion by the
\* upgrade flow, or a profile update), the next turn in a session that
\* already has a persisted turn hands the executor the user's current stored
\* preferences, not the preferences that an earlier turn saved into the
\* session context.  The TutorState's context is what a persisted turn
\* stores, so the preferences handed over are read from the stored context.
C27_TurnUsesCurrentPreferences ==
  [][
     (/\ last'.op = "turn" /\ last'.persisted
      /\ chat_sessions[last'.sessionId].conversation_history # <<>>)
       => chat_sessions'[last'.sessionId].context.user_preferences
            = users[chat_sessions[last'.sessionId].user_id].preferences
  ]_vars

====
